---- MODULE Spec2Model ----
(***************************************************************************)
(* Model of the mejoresnoticias ingestion and curation pipeline:           *)
(*   - lib/multiSiteScraper (src/unnamed/part_002): sitemap collection,    *)
(*     de-duplication, per-source ordering, body extraction, the           *)
(*     structured-data pass and the field resolution of scrapeArticle;     *)
(*   - the scraper runner (src/unnamed/part_002): runScrape and the source *)
(*     and extraction loops of scrapeAllSources;                           *)
(*   - lib/db.js: the two article tables and their upsert, alone and       *)
(*     under two concurrent calls;                                         *)
(*   - ai/contentProcessor.js: analysis, scoring, ranking, headline,       *)
(*     summaries, table processed_content;                                 *)
(*   - dashboard-server.js: the publish endpoint.                          *)
(*                                                                         *)
(* Numbers: finalScore is kept exactly, in units of 1/10000 (the code      *)
(* computes it in IEEE doubles; rounding in the last place is outside      *)
(* this model).  NaN and undefined are explicit sentinels.                 *)
(***************************************************************************)
EXTENDS Integers, Sequences, FiniteSets, TLC

VARIABLES
  (* scrapeAllSources / collectNewsUrls, one source *)
  cpc,        \* position: "idle", "fetch" (in the sitemap loop), "sorted"
  shard,      \* index of the next sitemap of source.sitemaps to fetch
  all,        \* collectNewsUrls: the array `all`
  deduped,    \* collectNewsUrls: its return value
  entries,    \* scrapeAllSources: `entries` after entries.sort(...)
  fetched,    \* the sitemap loop so far: ok[i] whether sitemap i succeeded,
              \* locs the matching locs read from the sitemaps that succeeded
              \* and read all the locs read from them
  (* lib/db.js *)
  dpc,        \* "idle" or "run"
  now,        \* the database clock, NOW()
  nyTable,    \* table newyorker_articles, rows in insertion order
  artTable,   \* table articles, rows in insertion order
  nextId,     \* BIGSERIAL sequences: [ny |-> n, art |-> n]
  lastUpsert, \* the last upsert: its table, url, the rows of that url before
              \* it, and the article it was called with
  writers,    \* concurrent upsertArticle calls: position, article, NOW(), id
              \* drawn, and the row version written but not yet committed
  commits,    \* the writers that committed, in commit order
  (* ai/contentProcessor.js *)
  ppc,        \* "idle", "start", "analyze", "headline", "headlined" (from the
              \* headline to the end of storeProcessedContent), "done",
              \* "failed", or "rank", "ranked" for the ranking on its own
  recent,     \* the kinds of the rows of table articles scraped in the last
              \* 24 hours, newest first: what the query of getRecentArticles finds
  articles,   \* rows read by getRecentArticles / argument of selectTopArticles
  idx,        \* selectTopArticles: index of the next article to analyze
  outcomes,   \* what analyzeArticleContent did for each article so far
  analyzedArticles, \* selectTopArticles: the array analyzedArticles
  targetCount,      \* selectTopArticles: targetCount
  topArticles,      \* the value selectTopArticles returned
  mainHeadline,     \* the value generateBuenosDiasHeadline returned
  headlineFailed,   \* whether the headline collaborator call failed
  raised,           \* whether processDailyContent raised
  procError,        \* the error it raised, NULL if none
  enhancedArticles, \* processDailyContent: the array enhancedArticles
  procResult,       \* <<r>> once processDailyContent returned r
  calls,            \* collaborator calls issued: [analysis, headline, summary]
  bundles,          \* table processed_content, rows in insertion order
  nextBundleId,     \* its BIGSERIAL sequence
  (* scraper runner: runScrape and the source loop of scrapeAllSources *)
  spc,        \* "idle", "start", "sources", "extract", "save", "done", "failed"
  options,    \* the argument of runScrape: [limit, sources]
  sourceIdx,  \* scrapeAllSources: index of the source being processed
  selected,   \* scrapeAllSources: `selected` of the current source
  entryIdx,   \* index of the next entry of `selected` to extract
  allResults, \* scrapeAllSources: the array allResults
  attempts,   \* every scrapeArticle call so far: its loc and, in a sequence
              \* of length 0 or 1, the article it returned
  candidates, \* every entry selected for extraction so far, in order
  requests,   \* network requests issued so far: [sitemaps |-> n, pages |-> n]
  runResult,  \* <<r>> once runScrape returned r, <<>> before that
  scrapeRaised,     \* the error runScrape raised, NULL if none
  (* environment *)
  connectionString, \* DATABASE_URL || POSTGRES_URL, NULL when neither is set
  (* extractNewYorkerBody *)
  bpc,        \* "idle", "page" (loaded), "extracted"
  page,       \* the paragraphs each selector matches on the loaded page
  body,       \* the value extractNewYorkerBody returned, with the text measured
  (* scrapeArticle *)
  xpc,           \* "idle", "scripts" (the .each loop), "done"
  doc,           \* the loaded page: its ld+json script blocks, its meta tags
  blockIdx,      \* the script block the .each callback is called with next
  jsonLdArticle, \* scrapeArticle: jsonLdArticle, <<>> for null
  jsonLdRaw,     \* scrapeArticle: jsonLdRaw as the index of its block, 0 null
  resolved       \* title, description and imageUrl of the returned article

vars == <<cpc, shard, all, deduped, entries, fetched,
          dpc, now, nyTable, artTable, nextId, lastUpsert, writers, commits,
          ppc, recent, articles, idx, outcomes, analyzedArticles, targetCount,
          topArticles, mainHeadline, headlineFailed, raised,
          procError, enhancedArticles, procResult, calls,
          bundles, nextBundleId,
          spc, options, sourceIdx, selected, entryIdx, allResults, attempts,
          candidates, requests, runResult, scrapeRaised,
          connectionString,
          bpc, page, body,
          xpc, doc, blockIdx, jsonLdArticle, jsonLdRaw, resolved>>

collectVars == <<cpc, shard, all, deduped, entries, fetched>>
dbVars      == <<dpc, now, nyTable, artTable, nextId, lastUpsert,
                 writers, commits>>
procVars    == <<ppc, recent, articles, idx, outcomes, analyzedArticles, targetCount,
                 topArticles, mainHeadline, headlineFailed, raised,
                 procError, enhancedArticles, procResult, calls,
                 bundles, nextBundleId>>
bodyVars    == <<bpc, page, body>>
scrapeVars  == <<spc, options, sourceIdx, selected, entryIdx, allResults,
                 attempts, candidates, requests, runResult, scrapeRaised>>
envVars     == <<connectionString>>
articleVars == <<xpc, doc, blockIdx, jsonLdArticle, jsonLdRaw, resolved>>

NULL == "NULL"          \* JavaScript null / undefined, SQL NULL

Min(a, b) == IF a < b THEN a ELSE b

SeqsUpTo(S, n) == UNION {[1..k -> S] : k \in 0..n}

(***************************************************************************)
(* Array.prototype.sort(comparefn) for arrays shorter than 64 elements, as *)
(* Node's V8 runs it: the leading run is counted (and reversed when it is  *)
(* strictly descending), the rest is binary-inserted.  The array is given  *)
(* by the matrix c[i][j] = comparefn(s[i], s[j]) (a NaN result already     *)
(* replaced by +0, as the engine does) and the result is the permutation   *)
(* of indices.  For a consistent comparefn this is the stable sort.        *)
(***************************************************************************)
RECURSIVE RunEnd(_, _, _, _)
RunEnd(c, n, isDescending, i) ==
  \* i is the last index already in the run; returns the run's last index
  IF i >= n THEN n
  ELSE IF isDescending
         THEN IF c[i + 1][i] >= 0 THEN i ELSE RunEnd(c, n, isDescending, i + 1)
         ELSE IF c[i + 1][i] < 0 THEN i ELSE RunEnd(c, n, isDescending, i + 1)

RECURSIVE BinarySearch(_, _, _, _, _)
BinarySearch(c, perm, pivot, left, right) ==
  \* 0-based left/right as in the engine; perm is 1-based
  IF left >= right THEN left
  ELSE LET mid == left + ((right - left) \div 2)
       IN  IF c[pivot][perm[mid + 1]] < 0
             THEN BinarySearch(c, perm, pivot, left, mid)
             ELSE BinarySearch(c, perm, pivot, mid + 1, right)

RECURSIVE BinaryInsertionSort(_, _, _, _)
BinaryInsertionSort(c, perm, start, n) ==
  \* perm[1..start] is in place; insert perm[start+1], ..., perm[n]
  IF start >= n THEN perm
  ELSE LET pivot == perm[start + 1]
           left  == BinarySearch(c, perm, pivot, 0, start)
           moved == [k \in 1..n |->
                       IF k <= left THEN perm[k]
                       ELSE IF k = left + 1 THEN pivot
                       ELSE IF k <= start + 1 THEN perm[k - 1]
                       ELSE perm[k]]
       IN  BinaryInsertionSort(c, moved, start + 1, n)

ArraySortPerm(c, n) ==
  IF n < 2 THEN [k \in 1..n |-> k]
  ELSE LET isDescending == c[2][1] < 0
           runLength    == RunEnd(c, n, isDescending, 2)
           run == [k \in 1..n |->
                     IF isDescending /\ k <= runLength
                       THEN runLength + 1 - k ELSE k]
       IN  BinaryInsertionSort(c, run, runLength, n)

(***************************************************************************)
(* lib/multiSiteScraper: NEWS_SOURCES, collectNewsUrls, the per-source     *)
(* sort of scrapeAllSources.                                               *)
(***************************************************************************)
\* NEWS_SOURCES.newyorker.urlPatterns
urlPatterns == <<"/magazine/", "/culture/", "/podcast/", "/humor/",
                 "/books/", "/business/", "/tech/", "/politics/">>

\* NEWS_SOURCES.newyorker.sitemaps has three shards
NumSitemaps == 3

\* total number of <url> records one collection pass may read
MaxEntries == 3

\* a loc is a URL cut into pieces; String.includes looks for a piece
Locs == { <<"newyorker.com", "/magazine/", "a">>,
          <<"newyorker.com", "/culture/", "b">>,
          <<"newyorker.com", "/news", "/politics/", "c">>,
          <<"newyorker.com", "/about/", "d">> }

\* lastmod strings of a sitemap; two of them name the same instant
Lastmods == { NULL, "2025-11-02", "2025-11-01", "2025-11-01T00:00:00Z" }

\* new Date(lastmod): milliseconds, here days since 2025-10-31
DateOf(lastmod) ==
  CASE lastmod = "2025-11-02" -> 2
    [] lastmod = "2025-11-01" -> 1
    [] lastmod = "2025-11-01T00:00:00Z" -> 1

includes(loc, pattern) == \E i \in 1..Len(loc) : loc[i] = pattern

matchesPattern(e) ==
  \E p \in 1..Len(urlPatterns) : includes(e.loc, urlPatterns[p])

\* what parseSitemapXml returns for one shard; the lastmod of a record the
\* filter drops is read by nothing, one value stands for all of them, and
\* the second spelling of 2025-11-01 comes with one loc
SitemapEntry ==
  {e \in [loc : Locs, lastmod : Lastmods] :
     /\ matchesPattern(e) \/ e.lastmod = NULL
     /\ e.lastmod = "2025-11-01T00:00:00Z" => includes(e.loc, "/culture/")}

matchingLocs(parsed) ==
  {parsed[k].loc : k \in {j \in 1..Len(parsed) : matchesPattern(parsed[j])}}

\* an inner loop that tests the first include-pattern only
pushMatchingFirstPattern(acc, parsed) ==
  LET kept == SelectSeq(parsed, LAMBDA e : includes(e.loc, urlPatterns[1]))
  IN  acc \o [k \in 1..Len(kept) |->
                [loc        |-> kept[k].loc,
                 lastmod    |-> kept[k].lastmod,
                 source     |-> "newyorker",
                 sourceName |-> "The New Yorker"]]

\* the inner loop of collectNewsUrls: push the matching entries, tagged
pushMatching(acc, parsed) ==
  acc \o [k \in 1..Len(SelectSeq(parsed, matchesPattern)) |->
            [loc        |-> SelectSeq(parsed, matchesPattern)[k].loc,
             lastmod    |-> SelectSeq(parsed, matchesPattern)[k].lastmod,
             source     |-> "newyorker",
             sourceName |-> "The New Yorker"]]

\* dedupedMap: insertion-ordered, a key already present is never replaced
RECURSIVE dedupeFrom(_, _, _)
dedupeFrom(list, i, map) ==
  IF i > Len(list) THEN map
  ELSE IF \E k \in 1..Len(map) : map[k].loc = list[i].loc
         THEN dedupeFrom(list, i + 1, map)
         ELSE dedupeFrom(list, i + 1, Append(map, list[i]))

\* a dedupedMap whose later duplicates replace the stored record
RECURSIVE dedupeLastFrom(_, _, _)
dedupeLastFrom(list, i, map) ==
  IF i > Len(list) THEN map
  ELSE IF \E k \in 1..Len(map) : map[k].loc = list[i].loc
         THEN dedupeLastFrom(list, i + 1,
                [k \in 1..Len(map) |->
                   IF map[k].loc = list[i].loc THEN list[i] ELSE map[k]])
         ELSE dedupeLastFrom(list, i + 1, Append(map, list[i]))

dedupeLastWins(list) == dedupeLastFrom(list, 1, <<>>)

dedupe(list) == dedupeFrom(list, 1, <<>>)

\* a comparator that orders equal dates (returns -1 instead of 0)
compareLastmodTie(a, b) ==
  IF a.lastmod # NULL /\ b.lastmod # NULL
    THEN IF DateOf(b.lastmod) = DateOf(a.lastmod) THEN -1
         ELSE DateOf(b.lastmod) - DateOf(a.lastmod)
  ELSE IF a.lastmod # NULL THEN -1
  ELSE IF b.lastmod # NULL THEN 1
  ELSE 0

\* a comparator that forgets to put the entries without lastmod last
compareLastmodNoNull(a, b) ==
  IF a.lastmod # NULL /\ b.lastmod # NULL
    THEN DateOf(b.lastmod) - DateOf(a.lastmod)
  ELSE 0

\* the comparefn of entries.sort in scrapeAllSources
compareLastmod(a, b) ==
  IF a.lastmod # NULL /\ b.lastmod # NULL
    THEN DateOf(b.lastmod) - DateOf(a.lastmod)
  ELSE IF a.lastmod # NULL THEN -1
  ELSE IF b.lastmod # NULL THEN 1
  ELSE 0

sortEntries(list) ==
  LET n == Len(list)
      c == [i \in 1..n |-> [j \in 1..n |-> compareLastmod(list[i], list[j])]]
      perm == ArraySortPerm(c, n)
  IN  [k \in 1..n |-> list[perm[k]]]

CollectIdle ==
  /\ cpc = "idle" /\ shard = 0
  /\ all = <<>> /\ deduped = <<>> /\ entries = <<>>
  /\ fetched = [ok |-> <<>>, locs |-> {}, read |-> {}]

\* scrapeAllSources reaches collectNewsUrls(sourceKey)
CollectStart ==
  /\ cpc = "fetch" /\ shard = 1
  /\ all = <<>> /\ deduped = <<>> /\ entries = <<>>
  /\ fetched = [ok |-> <<>>, locs |-> {}, read |-> {}]

\* the end of one iteration of the sitemap loop; after the last one the
\* function de-duplicates and returns, and scrapeAllSources sorts
finishShard(newAll) ==
  /\ all' = newAll
  /\ shard' = shard + 1
  /\ IF shard = NumSitemaps
       THEN /\ deduped' = dedupe(newAll)
            /\ entries' = sortEntries(dedupe(newAll))
            /\ cpc' = "sorted"
       ELSE UNCHANGED <<cpc, deduped, entries>>

\* one iteration of the sitemap loop: fetched and parsed
FetchShardOk ==
  /\ cpc = "fetch" /\ shard <= NumSitemaps
  /\ \E parsed \in SeqsUpTo(SitemapEntry, MaxEntries - Len(all)) :
       /\ finishShard(pushMatching(all, parsed))
       /\ fetched' = [ok   |-> Append(fetched.ok, TRUE),
                       locs |-> fetched.locs \cup matchingLocs(parsed),
                       read |-> fetched.read \cup
                                  {parsed[k].loc : k \in 1..Len(parsed)}]
  /\ UNCHANGED <<dbVars, procVars, bodyVars, scrapeVars, envVars, articleVars>>

\* a catch block that throws away what the earlier sitemaps gave
catchShardErrorReset(acc) == <<>>

\* the catch block of the sitemap loop: it logs, `all` keeps what was pushed
catchShardError(acc) == acc

\* one iteration of the sitemap loop: fetchText or parseSitemapXml threw,
\* before any record of this sitemap was pushed
FetchShardFail ==
  /\ cpc = "fetch" /\ shard <= NumSitemaps
  /\ finishShard(catchShardError(all))
  /\ fetched' = [fetched EXCEPT !.ok = Append(@, FALSE)]
  /\ UNCHANGED <<dbVars, procVars, bodyVars, scrapeVars, envVars, articleVars>>

(***************************************************************************)
(* lib/db.js: tables newyorker_articles and articles, upsertArticle.       *)
(***************************************************************************)
MaxUpserts == 2      \* upserts issued in one run of the model
MaxClock == 2        \* how far the database clock advances

Urls == {"u1", "u2"}

\* the article objects handed to upsertArticle; the analysis field comes
\* with a titled article or not at all
ArticleInputs ==
  {a \in [url : Urls, source : {"newyorker", "atlantic"},
          title : {NULL, "", "t1"}, bodyAvailable : BOOLEAN,
          category : {NULL, "culture"}] :
     a.category # NULL => a.title = "t1"}

\* sourceName, as scrapeArticle fills it in for a source
sourceNameOf(source) ==
  IF source = "newyorker" THEN "The New Yorker" ELSE "The Atlantic"

\* JavaScript `x || null`
orNull(x) == IF x = NULL \/ x = "" THEN NULL ELSE x

\* the $n values shared by both upserts
valuesOf(article) ==
  [url |-> article.url,
   title |-> orNull(article.title),
   body_available |-> article.bodyAvailable,
   category |-> orNull(article.category)]

hasUrl(table, url) == \E k \in 1..Len(table) : table[k].url = url

\* INSERT without the ON CONFLICT clause on a table without the UNIQUE key
insertAlways(table, article, id, t, withSource) ==
  Append(table,
         [id |-> id, url |-> article.url,
          source |-> IF withSource THEN article.source ELSE NULL,
          source_name |-> IF withSource THEN sourceNameOf(article.source)
                          ELSE NULL,
          title |-> valuesOf(article).title,
          body_available |-> valuesOf(article).body_available,
          category |-> IF withSource THEN valuesOf(article).category
                       ELSE NULL,
          scraped_at |-> t])

\* a SET list that also takes source and source_name from the new values
doUpdateSetWithSource(row, article, t, withSource) ==
  [row EXCEPT
     !.source = IF withSource THEN article.source ELSE NULL,
     !.source_name = IF withSource THEN sourceNameOf(article.source)
                     ELSE NULL,
     !.title = valuesOf(article).title,
     !.body_available = valuesOf(article).body_available,
     !.category = IF withSource THEN valuesOf(article).category ELSE NULL,
     !.scraped_at = t]

\* DO UPDATE SET title = EXCLUDED.title, ..., scraped_at = NOW(), and on
\* table articles the analysis columns; id, url, source and source_name are
\* not in the list
doUpdateSet(row, article, t, withSource) ==
  [row EXCEPT
     !.title = valuesOf(article).title,
     !.body_available = valuesOf(article).body_available,
     !.category = IF withSource THEN valuesOf(article).category ELSE NULL,
     !.scraped_at = t]

\* INSERT ... ON CONFLICT (url) DO UPDATE SET ... : url is UNIQUE
insertOnConflictUpdate(table, article, id, t, withSource) ==
  IF hasUrl(table, article.url)
    THEN [k \in 1..Len(table) |->
            IF table[k].url = article.url
              THEN doUpdateSet(table[k], article, t, withSource)
              ELSE table[k]]
    ELSE Append(table,
           [id |-> id, url |-> article.url,
            source |-> IF withSource THEN article.source ELSE NULL,
            source_name |-> IF withSource THEN sourceNameOf(article.source)
                            ELSE NULL,
            title |-> valuesOf(article).title,
            body_available |-> valuesOf(article).body_available,
            category |-> IF withSource THEN valuesOf(article).category
                         ELSE NULL,
            scraped_at |-> t])

rowsOf(table, url) == SelectSeq(table, LAMBDA r : r.url = url)

NoUpsert == [table |-> "none", url |-> NULL, before |-> <<>>,
             incoming |-> <<>>]

WriterIds == {1, 2}

NoWriter == [pc |-> "idle", article |-> <<>>, ts |-> 0, pending |-> <<>>]

DbIdle ==
  /\ dpc = "idle" /\ now = 0 /\ nyTable = <<>> /\ artTable = <<>>
  /\ nextId = [ny |-> 1, art |-> 1] /\ lastUpsert = NoUpsert
  /\ writers = [w \in WriterIds |-> NoWriter] /\ commits = <<>>

DbStart ==
  /\ dpc = "run" /\ now = 0 /\ nyTable = <<>> /\ artTable = <<>>
  /\ nextId = [ny |-> 1, art |-> 1] /\ lastUpsert = NoUpsert
  /\ writers = [w \in WriterIds |-> NoWriter] /\ commits = <<>>

UpsertsDone == (nextId.ny - 1) + (nextId.art - 1)

\* time passes between two statements
Tick ==
  /\ dpc = "run" /\ now < MaxClock
  /\ now' = now + 1
  /\ UNCHANGED <<dpc, nyTable, artTable, nextId, lastUpsert, writers,
                 commits>>
  /\ UNCHANGED <<collectVars, procVars, bodyVars, scrapeVars, envVars,
                 articleVars>>

\* lib/db.js (first module): upsertArticle on newyorker_articles
UpsertNewYorker ==
  /\ dpc = "run" /\ UpsertsDone < MaxUpserts
  /\ \E article \in ArticleInputs :
       /\ nyTable' = insertOnConflictUpdate(nyTable, article, nextId.ny, now,
                                            FALSE)
       /\ lastUpsert' = [table |-> "ny", url |-> article.url,
                         before |-> rowsOf(nyTable, article.url),
                         incoming |-> <<article>>]
  /\ nextId' = [nextId EXCEPT !.ny = @ + 1]
  /\ UNCHANGED <<dpc, now, artTable, writers, commits>>
  /\ UNCHANGED <<collectVars, procVars, bodyVars, scrapeVars, envVars,
                 articleVars>>

\* lib/db.js (multi-source module): upsertArticle on articles
UpsertArticle ==
  /\ dpc = "run" /\ UpsertsDone < MaxUpserts
  /\ \E article \in ArticleInputs :
       /\ artTable' = insertOnConflictUpdate(artTable, article, nextId.art,
                                             now, TRUE)
       /\ lastUpsert' = [table |-> "art", url |-> article.url,
                         before |-> rowsOf(artTable, article.url),
                         incoming |-> <<article>>]
  /\ nextId' = [nextId EXCEPT !.art = @ + 1]
  /\ UNCHANGED <<dpc, now, nyTable, writers, commits>>
  /\ UNCHANGED <<collectVars, procVars, bodyVars, scrapeVars, envVars,
                 articleVars>>

\* the articles two concurrent scraper runs hand to upsertArticle
ConcurrentInputs == {a \in ArticleInputs : a.source = "newyorker"}

\* two upsertArticle calls are issued, each on its own pooled connection
ConcurrentStart ==
  /\ dpc = "run" /\ now = 0 /\ nyTable = <<>> /\ artTable = <<>>
  /\ nextId = [ny |-> 1, art |-> 1] /\ lastUpsert = NoUpsert
  /\ \E a1, a2 \in ConcurrentInputs :
       writers = [w \in WriterIds |->
                    [pc |-> "issued",
                     article |-> IF w = 1 THEN <<a1>> ELSE <<a2>>,
                     ts |-> 0, pending |-> <<>>]]
  /\ commits = <<>>

\* the statement of writer w starts: its transaction, and with it its NOW()
BeginUpsert(w) ==
  /\ dpc = "run" /\ writers[w].pc = "issued"
  /\ writers' = [writers EXCEPT ![w].pc = "begun", ![w].ts = now]
  /\ UNCHANGED <<dpc, now, nyTable, artTable, nextId, lastUpsert, commits>>
  /\ UNCHANGED <<collectVars, procVars, bodyVars, scrapeVars, envVars,
                 articleVars>>

\* a statement that does not wait for an uncommitted row of the same url
neverWaits(w) == FALSE

\* ON CONFLICT on the UNIQUE url: a statement that meets a row version of
\* its url written by a transaction still in progress waits for it to end
mustWait(w) ==
  \E o \in WriterIds \ {w} :
    /\ writers[o].pc = "written"
    /\ writers[o].article[1].url = writers[w].article[1].url

\* the statement of writer w executes against the committed rows: it writes
\* the new row, or the new version of the row of its url, not yet visible
WriteUpsert(w) ==
  /\ dpc = "run" /\ writers[w].pc = "begun" /\ ~mustWait(w)
  /\ LET article == writers[w].article[1]
         after == insertOnConflictUpdate(artTable, article, nextId.art,
                                         writers[w].ts, TRUE)
     IN  writers' = [writers EXCEPT
                       ![w].pc = "written",
                       ![w].pending = rowsOf(after, article.url)]
  /\ nextId' = [nextId EXCEPT !.art = @ + 1]
  /\ UNCHANGED <<dpc, now, nyTable, artTable, lastUpsert, commits>>
  /\ UNCHANGED <<collectVars, procVars, bodyVars, scrapeVars, envVars,
                 articleVars>>

\* the transaction of writer w commits: what it wrote becomes the row
CommitUpsert(w) ==
  /\ dpc = "run" /\ writers[w].pc = "written"
  /\ LET row == writers[w].pending[1]
     IN  artTable' =
           IF \E k \in 1..Len(artTable) : artTable[k].id = row.id
             THEN [k \in 1..Len(artTable) |->
                     IF artTable[k].id = row.id THEN row ELSE artTable[k]]
             ELSE Append(artTable, row)
  /\ writers' = [writers EXCEPT ![w].pc = "committed"]
  /\ commits' = Append(commits, w)
  /\ lastUpsert' = [table |-> "art", url |-> writers[w].article[1].url,
                    before |-> rowsOf(artTable, writers[w].article[1].url),
                    incoming |-> writers[w].article]
  /\ UNCHANGED <<dpc, now, nyTable, nextId>>
  /\ UNCHANGED <<collectVars, procVars, bodyVars, scrapeVars, envVars,
                 articleVars>>

(***************************************************************************)
(* ai/contentProcessor.js: ContentProcessor.                               *)
(***************************************************************************)
MaxArticles == 3     \* rows getRecentArticles returns in the model
MaxRanked == 7       \* analyzed articles handed to the ranking alone
MaxDaily == 2        \* rows getRecentArticles returns in a whole run

TopK == 10           \* processDailyContent: selectTopArticles(articles, 10)

UNDEF == -1          \* a numeric field the reply does not carry (undefined)
NaN == -1            \* finalScore when a score field is undefined

\* this.contentCategories, weights in hundredths
contentCategories ==
  [politics |-> 25, culture |-> 20, business |-> 20,
   international |-> 15, lifestyle |-> 10, opinion |-> 10]

CategoryNames == {"politics", "culture", "business", "international",
                  "lifestyle", "opinion"}

\* rows of table articles as the processor reads them
ArticleKinds ==
  { [title |-> "t", description |-> "d", body_available |-> TRUE,
     body_text |-> "text"],
    [title |-> NULL, description |-> NULL, body_available |-> TRUE,
     body_text |-> "text"],
    [title |-> "t", description |-> "d", body_available |-> FALSE,
     body_text |-> NULL],
    [title |-> "t", description |-> "d", body_available |-> TRUE,
     body_text |-> NULL] }

\* titles, told apart by the id of the row
TitleOf(i) == <<"t1", "t2", "t3", "t4", "t5", "t6", "t7", "t8", "t9">>[i]

\* descriptions, told apart by the id of the row
DescriptionOf(i) == <<"d1", "d2", "d3", "d4", "d5", "d6", "d7", "d8", "d9">>[i]

\* a row of the result set: the kind with its id
rowAt(kinds, i) ==
  [id |-> i,
   title |-> IF kinds[i].title = NULL THEN NULL ELSE TitleOf(i),
   description |-> IF kinds[i].description = NULL THEN NULL
                   ELSE DescriptionOf(i),
   body_available |-> kinds[i].body_available,
   body_text |-> kinds[i].body_text]

\* the JSON objects the analysis collaborator may reply with
Replies ==
  [category : CategoryNames \cup {"sports", NULL},
   qualityScore : 1..10 \cup {UNDEF},
   relevanceScore : 1..10 \cup {UNDEF},
   engagementPotential : {"high", "medium", "low", NULL}]

ReplyPolitics ==
  [category |-> "politics", qualityScore |-> 8, relevanceScore |-> 7,
   engagementPotential |-> "high"]
ReplyCulture ==
  [category |-> "culture", qualityScore |-> 5, relevanceScore |-> 5,
   engagementPotential |-> "low"]
ReplyLifestyle ==
  [category |-> "lifestyle", qualityScore |-> 3, relevanceScore |-> 3,
   engagementPotential |-> "medium"]
ReplyEmptyObject ==
  [category |-> NULL, qualityScore |-> UNDEF, relevanceScore |-> UNDEF,
   engagementPotential |-> NULL]

ReplySamples == {ReplyPolitics, ReplyCulture, ReplyLifestyle, ReplyEmptyObject}

\* what openai.chat.completions.create does: throws, or returns a text that
\* JSON.parse rejects, or a text that parses to an object
Responses(replies) ==
  {[kind |-> "error", content |-> ReplyEmptyObject],
   [kind |-> "unparseable", content |-> ReplyEmptyObject]}
  \cup {[kind |-> "json", content |-> r] : r \in replies}

\* analyzeArticleContent without its try/catch: the failure propagates
analyzeArticleContentNoCatch(article, response) ==
  IF ~article.body_available \/ article.body_text = NULL
    THEN [called |-> FALSE, threw |-> FALSE, analysis |-> <<>>]
  ELSE IF response.kind = "json"
    THEN [called |-> TRUE, threw |-> FALSE,
          analysis |-> << [articleId |-> article.id,
                           category |-> response.content.category,
                           qualityScore |-> response.content.qualityScore,
                           relevanceScore |-> response.content.relevanceScore,
                           engagementPotential |->
                             response.content.engagementPotential] >>]
  ELSE [called |-> TRUE, threw |-> TRUE, analysis |-> <<>>]

\* whether analyzeArticleContent goes on to the collaborator, tested on the
\* flag alone
hasBodyFlagOnly(article) == article.body_available

\* the guard of analyzeArticleContent, negated:
\* !article.body_available || !article.body_text returns null
hasBody(article) ==
  article.body_available /\ article.body_text \notin {NULL, ""}

\* analyzeArticleContent: analysis is <<>> for the JavaScript null
analyzeArticleContent(article, response) ==
  IF ~hasBody(article)
    THEN [called |-> FALSE, threw |-> FALSE, analysis |-> <<>>]
  ELSE IF response.kind = "json"
    THEN [called |-> TRUE, threw |-> FALSE,
          analysis |-> << [articleId |-> article.id,
                           category |-> response.content.category,
                           qualityScore |-> response.content.qualityScore,
                           relevanceScore |-> response.content.relevanceScore,
                           engagementPotential |->
                             response.content.engagementPotential] >>]
  ELSE [called |-> TRUE, threw |-> FALSE, analysis |-> <<>>]

\* a finalScore with the quality and relevance factors exchanged
finalScoreSwapped(analysis) ==
  LET categoryWeight ==
        IF analysis.category \in DOMAIN contentCategories
          THEN contentCategories[analysis.category] ELSE 10
      engagementBoost ==
        IF analysis.engagementPotential = "high" THEN 12
        ELSE IF analysis.engagementPotential = "medium" THEN 11 ELSE 10
  IN  IF analysis.qualityScore = UNDEF \/ analysis.relevanceScore = UNDEF
        THEN NaN
        ELSE (categoryWeight * 3 + analysis.qualityScore * 30
              + analysis.relevanceScore * 40) * engagementBoost

\* the finalScore of the scoring map, in units of 1/10000:
\* (categoryWeight*0.3 + q/10*0.4 + r/10*0.3) * engagementBoost
finalScoreOf(analysis) ==
  LET categoryWeight ==
        IF analysis.category \in DOMAIN contentCategories
          THEN contentCategories[analysis.category] ELSE 10
      engagementBoost ==
        IF analysis.engagementPotential = "high" THEN 12
        ELSE IF analysis.engagementPotential = "medium" THEN 11 ELSE 10
  IN  IF analysis.qualityScore = UNDEF \/ analysis.relevanceScore = UNDEF
        THEN NaN
        ELSE (categoryWeight * 3 + analysis.qualityScore * 40
              + analysis.relevanceScore * 30) * engagementBoost

\* (a, b) => b.finalScore - a.finalScore; a NaN difference counts as +0
compareFinalScore(a, b) ==
  IF a.finalScore = NaN \/ b.finalScore = NaN THEN 0
  ELSE b.finalScore - a.finalScore

\* the second half of selectTopArticles: score, sort, slice
rankAndSlice(analyzed, count) ==
  LET n == Len(analyzed)
      scored == [k \in 1..n |->
                   [id |-> analyzed[k].id, title |-> analyzed[k].title,
                    description |-> analyzed[k].description,
                    body_available |-> analyzed[k].body_available,
                    body_text |-> analyzed[k].body_text,
                    analysis |-> analyzed[k].analysis,
                    finalScore |-> finalScoreOf(analyzed[k].analysis)]]
      c == [i \in 1..n |->
              [j \in 1..n |-> compareFinalScore(scored[i], scored[j])]]
      perm == ArraySortPerm(c, n)
  IN  [k \in 1..Min(n, count) |-> scored[perm[k]]]

withAnalysis(article, analysis) ==
  [id |-> article.id, title |-> article.title,
   description |-> article.description,
   body_available |-> article.body_available,
   body_text |-> article.body_text, analysis |-> analysis]

NoCalls == [analysis |-> 0, headline |-> 0, summary |-> 0]

\* the part of the processor state behind the headline, before a run
ProcRest ==
  /\ procError = NULL /\ enhancedArticles = <<>>
  /\ procResult = <<>> /\ calls = NoCalls
  /\ bundles = <<>> /\ nextBundleId = 1

afterHeadline == <<enhancedArticles, procResult, bundles, nextBundleId>>

ProcIdle ==
  /\ ppc = "idle" /\ recent = <<>> /\ articles = <<>> /\ idx = 0 /\ outcomes = <<>>
  /\ analyzedArticles = <<>> /\ targetCount = 0 /\ topArticles = <<>>
  /\ mainHeadline = NULL /\ headlineFailed = FALSE /\ raised = FALSE
  /\ ProcRest

\* processDailyContent is entered, for a run followed to its end
DailyStart ==
  /\ ppc = "start" /\ recent \in SeqsUpTo(ArticleKinds, MaxDaily)
  /\ articles = <<>> /\ idx = 0 /\ outcomes = <<>>
  /\ analyzedArticles = <<>> /\ targetCount = TopK /\ topArticles = <<>>
  /\ mainHeadline = NULL /\ headlineFailed = FALSE /\ raised = FALSE
  /\ ProcRest

\* processDailyContent is entered
ProcStart ==
  /\ ppc = "start" /\ recent \in SeqsUpTo(ArticleKinds, MaxArticles)
  /\ articles = <<>> /\ idx = 0 /\ outcomes = <<>>
  /\ analyzedArticles = <<>> /\ targetCount = TopK /\ topArticles = <<>>
  /\ mainHeadline = NULL /\ headlineFailed = FALSE /\ raised = FALSE
  /\ ProcRest

\* the end of one iteration of the analysis loop; after the last one the
\* articles are scored, sorted and sliced and selectTopArticles returns
finishAnalysis(rows, newAnalyzed, nextIdx) ==
  /\ analyzedArticles' = newAnalyzed
  /\ idx' = nextIdx
  /\ IF nextIdx > Len(rows)
       THEN /\ topArticles' = rankAndSlice(newAnalyzed, targetCount)
            /\ ppc' = "headline"
       ELSE /\ ppc' = "analyze"
            /\ UNCHANGED topArticles

\* getRecentArticles(50) returned rows; selectTopArticles starts.
\* contentProcessor.js builds its own Pool from the connection string
\* without testing it; with neither variable set the driver connects with
\* its defaults, so the query may still be answered
GetRecentArticles ==
  /\ ppc = "start"
  /\ articles' = [i \in 1..Len(recent) |-> rowAt(recent, i)]
  /\ finishAnalysis(recent, <<>>, 1)
  /\ UNCHANGED <<recent, outcomes, targetCount, mainHeadline, headlineFailed, raised>>
  /\ UNCHANGED <<procError, calls, afterHeadline>>
  /\ UNCHANGED <<collectVars, dbVars, bodyVars, scrapeVars, envVars,
                 articleVars>>

\* getRecentArticles(50) rejected: processDailyContent logs and rethrows
GetRecentArticlesFail ==
  /\ ppc = "start"
  /\ ppc' = "failed" /\ raised' = TRUE /\ procError' = "query failed"
  /\ UNCHANGED <<recent, articles, idx, outcomes, analyzedArticles,
                 targetCount, topArticles, mainHeadline, headlineFailed>>
  /\ UNCHANGED <<calls, afterHeadline>>
  /\ UNCHANGED <<collectVars, dbVars, bodyVars, scrapeVars, envVars,
                 articleVars>>

\* one iteration of the loop of selectTopArticles
AnalyzeArticle ==
  /\ ppc = "analyze" /\ idx <= Len(articles)
  /\ \E response \in Responses(ReplySamples) :
       LET result == analyzeArticleContent(articles[idx], response)
       IN  IF result.threw
             THEN /\ ppc' = "failed" /\ raised' = TRUE
                  /\ procError' = "collaborator failed"
                  /\ calls' = [calls EXCEPT !.analysis = @ + 1]
                  /\ outcomes' = Append(outcomes, "threw")
                  /\ UNCHANGED <<idx, analyzedArticles, topArticles>>
             ELSE /\ outcomes' = Append(outcomes,
                        IF ~result.called THEN "skipped"
                        ELSE IF result.analysis = <<>> THEN response.kind
                        ELSE "analyzed")
                  /\ finishAnalysis(articles,
                        IF result.analysis = <<>> THEN analyzedArticles
                        ELSE Append(analyzedArticles,
                               withAnalysis(articles[idx], result.analysis[1])),
                        idx + 1)
                  /\ calls' = IF result.called
                                THEN [calls EXCEPT !.analysis = @ + 1]
                                ELSE calls
                  /\ UNCHANGED <<raised, procError>>
  /\ UNCHANGED <<recent, articles, targetCount, mainHeadline,
                 headlineFailed>>
  /\ UNCHANGED afterHeadline
  /\ UNCHANGED <<collectVars, dbVars, bodyVars, scrapeVars, envVars,
                 articleVars>>

\* selectTopArticles is handed already analyzed articles
RankStart(replyLists, counts) ==
  /\ ppc = "rank" /\ recent = <<>> /\ articles = <<>> /\ idx = 0 /\ outcomes = <<>>
  /\ \E replies \in replyLists :
       analyzedArticles =
         [i \in 1..Len(replies) |->
            [id |-> i, title |-> TitleOf(i),
             description |-> DescriptionOf(i), body_available |-> TRUE,
             body_text |-> "text",
             analysis |->
               [articleId |-> i,
                category |-> replies[i].category,
                qualityScore |-> replies[i].qualityScore,
                relevanceScore |-> replies[i].relevanceScore,
                engagementPotential |-> replies[i].engagementPotential]]]
  /\ targetCount \in counts /\ topArticles = <<>>
  /\ mainHeadline = NULL /\ headlineFailed = FALSE /\ raised = FALSE
  /\ ProcRest

\* the scoring, sorting and slicing of selectTopArticles on its own
ScoreSortSlice ==
  /\ ppc = "rank"
  /\ topArticles' = rankAndSlice(analyzedArticles, targetCount)
  /\ ppc' = "ranked"
  /\ UNCHANGED <<recent, articles, idx, outcomes, analyzedArticles,
                 targetCount, mainHeadline, headlineFailed, raised>>
  /\ UNCHANGED <<procError, calls, afterHeadline>>
  /\ UNCHANGED <<collectVars, dbVars, bodyVars, scrapeVars, envVars,
                 articleVars>>

\* the catch branch of generateBuenosDiasHeadline without the constant
fallbackHeadlineTitleOnly(selectedArticles) ==
  IF selectedArticles = <<>> THEN "Daily News Summary"
  ELSE selectedArticles[1].title

\* selectedArticles[0]?.title || 'Daily News Summary'
fallbackHeadline(selectedArticles) ==
  IF selectedArticles = <<>> THEN "Daily News Summary"
  ELSE IF selectedArticles[1].title = NULL THEN "Daily News Summary"
  ELSE selectedArticles[1].title

\* generateBuenosDiasHeadline: the collaborator answered
HeadlineGenerated ==
  /\ ppc = "headline"
  /\ mainHeadline' = "generated headline"
  /\ headlineFailed' = FALSE
  /\ ppc' = "headlined"
  /\ UNCHANGED <<recent, articles, idx, outcomes, analyzedArticles,
                 targetCount, topArticles, raised>>
  /\ calls' = [calls EXCEPT !.headline = @ + 1]
  /\ UNCHANGED <<procError, afterHeadline>>
  /\ UNCHANGED <<collectVars, dbVars, bodyVars, scrapeVars, envVars,
                 articleVars>>

\* generateBuenosDiasHeadline: the collaborator call failed
HeadlineFallback ==
  /\ ppc = "headline"
  /\ mainHeadline' = fallbackHeadline(topArticles)
  /\ headlineFailed' = TRUE
  /\ ppc' = "headlined"
  /\ UNCHANGED <<recent, articles, idx, outcomes, analyzedArticles,
                 targetCount, topArticles, raised>>
  /\ calls' = [calls EXCEPT !.headline = @ + 1]
  /\ UNCHANGED <<procError, afterHeadline>>
  /\ UNCHANGED <<collectVars, dbVars, bodyVars, scrapeVars, envVars,
                 articleVars>>

\* a catch branch that returns the description whether it is present or not
generateArticleSummaryDescriptionOnly(article, ok) ==
  IF ~article.body_available
    THEN [called |-> FALSE, summary |-> article.description]
  ELSE IF ok THEN [called |-> TRUE, summary |-> "generated summary"]
  ELSE [called |-> TRUE, summary |-> article.description]

\* generateArticleSummary: `ok` tells whether the collaborator answered
generateArticleSummary(article, ok) ==
  IF ~article.body_available
    THEN [called |-> FALSE,
          summary |-> IF article.description = NULL
                        THEN "Full article not available"
                        ELSE article.description]
  ELSE IF ok THEN [called |-> TRUE, summary |-> "generated summary"]
  ELSE [called |-> TRUE,
        summary |-> IF article.description = NULL
                      THEN "Summary not available"
                      ELSE article.description]

\* { ...article, enhancedSummary: summary }
enhanced(article, summary) ==
  [id |-> article.id, title |-> article.title,
   description |-> article.description,
   body_available |-> article.body_available,
   body_text |-> article.body_text, analysis |-> article.analysis,
   finalScore |-> article.finalScore, enhancedSummary |-> summary]

\* a store that does not wait for the summary loop
summariesDoneOrNot == TRUE

\* the summary loop of processDailyContent has run over all of topArticles
summariesDone == Len(enhancedArticles) = Len(topArticles)

\* one iteration of the summary loop of processDailyContent
summaryStep(ok) ==
  LET article == topArticles[Len(enhancedArticles) + 1]
      result == generateArticleSummary(article, ok)
  IN  /\ enhancedArticles' =
           Append(enhancedArticles, enhanced(article, result.summary))
      /\ calls' = IF result.called
                    THEN [calls EXCEPT !.summary = @ + 1] ELSE calls

\* the summary loop: the collaborator answered
SummaryGenerated ==
  /\ ppc = "headlined" /\ ~summariesDone
  /\ summaryStep(TRUE)
  /\ UNCHANGED <<ppc, recent, articles, idx, outcomes, analyzedArticles,
                 targetCount, topArticles, mainHeadline, headlineFailed,
                 raised, procError, procResult, bundles, nextBundleId>>
  /\ UNCHANGED <<collectVars, dbVars, bodyVars, scrapeVars, envVars,
                 articleVars>>

\* the summary loop: the collaborator call failed
SummaryFallback ==
  /\ ppc = "headlined" /\ ~summariesDone
  /\ summaryStep(FALSE)
  /\ UNCHANGED <<ppc, recent, articles, idx, outcomes, analyzedArticles,
                 targetCount, topArticles, mainHeadline, headlineFailed,
                 raised, procError, procResult, bundles, nextBundleId>>
  /\ UNCHANGED <<collectVars, dbVars, bodyVars, scrapeVars, envVars,
                 articleVars>>

JsonNull == -2       \* null where a number is expected

\* JSON.stringify of one enhanced article: a NaN becomes null
toJson(article) ==
  [article EXCEPT !.finalScore = IF @ = NaN THEN JsonNull ELSE @]

\* an INSERT that stores the row under the id of the latest bundle
insertBundleOverLatest(table, id, headline, list, t) ==
  IF table = <<>>
    THEN <<[id |-> id, headline |-> headline,
            articles |-> [k \in 1..Len(list) |-> toJson(list[k])],
            processed_at |-> t, published |-> FALSE]>>
    ELSE [table EXCEPT ![Len(table)] =
            [id |-> @.id, headline |-> headline,
             articles |-> [k \in 1..Len(list) |-> toJson(list[k])],
             processed_at |-> t, published |-> FALSE]]

\* INSERT INTO processed_content (headline, articles, processed_at)
\* VALUES ($1, $2, NOW()): id from the sequence, published by default FALSE
insertBundle(table, id, headline, list, t) ==
  Append(table,
         [id |-> id, headline |-> headline,
          articles |-> [k \in 1..Len(list) |-> toJson(list[k])],
          processed_at |-> t, published |-> FALSE])

\* storeProcessedContent succeeded, processDailyContent returns its result
StoreProcessedContent ==
  /\ ppc = "headlined" /\ summariesDone
  /\ bundles' = insertBundle(bundles, nextBundleId, mainHeadline,
                             enhancedArticles, now)
  /\ nextBundleId' = nextBundleId + 1
  /\ procResult' = << [headline |-> mainHeadline,
                       articles |-> enhancedArticles] >>
  /\ ppc' = "done"
  /\ UNCHANGED <<recent, articles, idx, outcomes, analyzedArticles,
                 targetCount, topArticles, mainHeadline, headlineFailed,
                 raised, procError, enhancedArticles, calls>>
  /\ UNCHANGED <<collectVars, dbVars, bodyVars, scrapeVars, envVars,
                 articleVars>>

\* one of the two queries of storeProcessedContent rejected:
\* processDailyContent logs and rethrows
StoreProcessedContentFail ==
  /\ ppc = "headlined" /\ summariesDone
  /\ ppc' = "failed" /\ raised' = TRUE /\ procError' = "query failed"
  /\ UNCHANGED <<recent, articles, idx, outcomes, analyzedArticles,
                 targetCount, topArticles, mainHeadline, headlineFailed,
                 enhancedArticles, procResult, calls, bundles, nextBundleId>>
  /\ UNCHANGED <<collectVars, dbVars, bodyVars, scrapeVars, envVars,
                 articleVars>>

MaxRuns == 2         \* runs of processDailyContent that reach the store

\* what selectTopArticles returns in a run whose analyses were `replies`
readyTop(replies) ==
  rankAndSlice(
    [i \in 1..Len(replies) |->
       [id |-> i, title |-> TitleOf(i), description |-> DescriptionOf(i),
        body_available |-> TRUE, body_text |-> "text",
        analysis |->
          [articleId |-> i,
           category |-> replies[i].category,
           qualityScore |-> replies[i].qualityScore,
           relevanceScore |-> replies[i].relevanceScore,
           engagementPotential |-> replies[i].engagementPotential]]],
    TopK)

\* a run of processDailyContent has its headline and its summaries and is
\* about to call storeProcessedContent
RunReady ==
  /\ ppc \in {"idle", "done", "failed"} /\ Len(bundles) < MaxRuns
  /\ \E replies \in SeqsUpTo({ReplyPolitics, ReplyEmptyObject}, 1) :
       /\ topArticles' = readyTop(replies)
       /\ enhancedArticles' =
            [k \in 1..Len(readyTop(replies)) |->
               enhanced(readyTop(replies)[k], "generated summary")]
  /\ \E failed \in BOOLEAN :
       /\ headlineFailed' = failed
       /\ mainHeadline' = IF failed THEN fallbackHeadline(topArticles')
                          ELSE "generated headline"
  /\ ppc' = "headlined" /\ raised' = FALSE /\ procError' = NULL
  /\ procResult' = <<>>
  /\ UNCHANGED <<recent, articles, idx, outcomes, analyzedArticles,
                 targetCount, calls, bundles, nextBundleId>>
  /\ UNCHANGED <<collectVars, dbVars, bodyVars, scrapeVars, envVars,
                 articleVars>>

\* the ids of the rows ORDER BY processed_at DESC LIMIT 1 may return
latestBundleIds(table) ==
  {table[k].id : k \in {j \in 1..Len(table) :
      \A i \in 1..Len(table) : table[i].processed_at <= table[j].processed_at}}

\* POST /api/ai/publish: UPDATE processed_content SET published = true
\* WHERE id = (the id of the latest row); no row when the table is empty
PublishLatest ==
  /\ \/ /\ bundles = <<>> /\ UNCHANGED bundles
     \/ \E id \in latestBundleIds(bundles) :
          bundles' = [k \in 1..Len(bundles) |->
                        IF bundles[k].id = id
                          THEN [bundles[k] EXCEPT !.published = TRUE]
                          ELSE bundles[k]]
  /\ UNCHANGED <<ppc, recent, articles, idx, outcomes, analyzedArticles,
                 targetCount, topArticles, mainHeadline, headlineFailed,
                 raised, procError, enhancedArticles, procResult, calls,
                 nextBundleId>>
  /\ UNCHANGED <<collectVars, dbVars, bodyVars, scrapeVars, envVars,
                 articleVars>>

(***************************************************************************)
(* lib/multiSiteScraper: extractNewYorkerBody.  A text is a sequence of    *)
(* pieces: words (with their length in characters), " " and "\n".          *)
(***************************************************************************)
MaxParagraphs == 2   \* <p> elements on a page

selectors == <<"article .article-content p", "article .content p",
               ".article-body p", ".story-body p",
               "[data-testid=\"article-body\"] p", ".paragraph-text",
               "article p">>

\* characters in a piece
LenOf(piece) ==
  CASE piece \in {" ", "\n"} -> 1
    [] piece \in {"Subscribe", "SUBSCRIBE", "subscribe"} -> 9
    [] piece \in {"New", "NEW", "new", "The", "the"} -> 3
    [] piece \in {"Yorker", "YORKER", "yorker"} -> 6
    [] piece \in {"to"} -> 2
    [] piece = "w40" -> 40
    [] piece = "w200" -> 200
    [] piece = "w201" -> 201
    [] piece = "w471" -> 471
    [] piece = "w472" -> 472
    [] piece = "w500" -> 500

RECURSIVE length(_)
length(text) ==
  IF text = <<>> THEN 0 ELSE LenOf(Head(text)) + length(Tail(text))

isSpace(piece) == piece \in {" ", "\n"}

\* String.prototype.trim
RECURSIVE trimStart(_)
trimStart(text) ==
  IF text # <<>> /\ isSpace(Head(text)) THEN trimStart(Tail(text)) ELSE text

RECURSIVE trimEnd(_)
trimEnd(text) ==
  IF text # <<>> /\ isSpace(text[Len(text)])
    THEN trimEnd(SubSeq(text, 1, Len(text) - 1)) ELSE text

trim(text) == trimEnd(trimStart(text))

\* paragraphs.map(el => $(el).text().trim()).get().join('\n\n')
RECURSIVE joinParagraphs(_)
joinParagraphs(paragraphs) ==
  IF paragraphs = <<>> THEN <<>>
  ELSE IF Len(paragraphs) = 1 THEN trim(paragraphs[1])
  ELSE trim(paragraphs[1]) \o <<"\n", "\n">> \o joinParagraphs(Tail(paragraphs))

\* .replace(/\s+/g, ' ')
RECURSIVE collapseWhitespace(_)
collapseWhitespace(text) ==
  IF text = <<>> THEN <<>>
  ELSE IF isSpace(Head(text))
    THEN <<" ">> \o collapseWhitespace(trimStart(text))
    ELSE <<Head(text)>> \o collapseWhitespace(Tail(text))

\* index of the last "\n" of the whitespace run that starts at text[1], or 0
RECURSIVE lastNewlineOfRun(_, _, _)
lastNewlineOfRun(text, i, found) ==
  IF i > Len(text) \/ ~isSpace(text[i]) THEN found
  ELSE lastNewlineOfRun(text, i + 1, IF text[i] = "\n" THEN i ELSE found)

\* .replace(/\n\s*\n/g, '\n\n')
RECURSIVE collapseBlankLines(_)
collapseBlankLines(text) ==
  IF text = <<>> THEN <<>>
  ELSE IF Head(text) = "\n" /\ lastNewlineOfRun(text, 2, 0) > 0
    THEN <<"\n", "\n">> \o
         collapseBlankLines(SubSeq(text, lastNewlineOfRun(text, 2, 0) + 1,
                                   Len(text)))
    ELSE <<Head(text)>> \o collapseBlankLines(Tail(text))

\* String.prototype.toLowerCase, piece by piece
lowerPiece(piece) ==
  CASE piece \in {"Subscribe", "SUBSCRIBE"} -> "subscribe"
    [] piece \in {"New", "NEW"} -> "new"
    [] piece \in {"Yorker", "YORKER"} -> "yorker"
    [] piece = "The" -> "the"
    [] OTHER -> piece

toLowerCase(text) == [k \in 1..Len(text) |-> lowerPiece(text[k])]

\* String.prototype.includes for a needle given as pieces
includesText(text, needle) ==
  \E i \in 0..(Len(text) - Len(needle)) :
    \A k \in 1..Len(needle) : text[i + k] = needle[k]

\* the elements a selector matches: the article-content paragraphs are also
\* paragraphs of the article
matches(pg, selector) ==
  IF selector = "article .article-content p" THEN pg.content
  ELSE IF selector = "article p" THEN pg.content \o pg.rest
  ELSE <<>>

\* the selector loop: the text of the first selector giving more than 100
\* characters, else of the last selector that matched anything
RECURSIVE selectBody(_, _, _)
selectBody(pg, i, bodyText) ==
  IF i > Len(selectors) THEN bodyText
  ELSE LET paragraphs == matches(pg, selectors[i])
       IN  IF Len(paragraphs) > 0
             THEN IF length(joinParagraphs(paragraphs)) > 100
                    THEN joinParagraphs(paragraphs)
                    ELSE selectBody(pg, i + 1, joinParagraphs(paragraphs))
             ELSE selectBody(pg, i + 1, bodyText)

normalize(text) == trim(collapseBlankLines(collapseWhitespace(text)))

\* isPaywallText that compares the text as written, not lower-cased
isPaywallTextCaseSensitive(bodyText) ==
  /\ includesText(bodyText, <<"subscribe">>)
  /\ includesText(bodyText, <<"new", " ", "yorker">>)
  /\ length(bodyText) < 500

isPaywallText(bodyText) ==
  /\ includesText(toLowerCase(bodyText), <<"subscribe">>)
  /\ includesText(toLowerCase(bodyText), <<"new", " ", "yorker">>)
  /\ length(bodyText) < 500

\* bodyAvailable with the length test off by one
bodyAvailableAtLeast(bodyText) ==
  length(bodyText) >= 200 /\ ~isPaywallText(bodyText)

bodyAvailableOf(bodyText) ==
  length(bodyText) > 200 /\ ~isPaywallText(bodyText)

\* a result that keeps the text whether the body is available or not
extractNewYorkerBodyKeepsText(pg) ==
  LET bodyText == normalize(selectBody(pg, 1, <<>>))
  IN  [bodyText |-> <<bodyText>>,
       bodyAvailable |-> bodyAvailableOf(bodyText),
       text |-> bodyText]

\* the value extractNewYorkerBody returns; bodyText <<>> is null;
\* text is the normalized text the function measured
extractNewYorkerBody(pg) ==
  LET bodyText == normalize(selectBody(pg, 1, <<>>))
  IN  [bodyText |-> IF bodyAvailableOf(bodyText) THEN <<bodyText>> ELSE <<>>,
       bodyAvailable |-> bodyAvailableOf(bodyText),
       text |-> bodyText]

\* the <p> elements pages are made of
ParagraphPool ==
  { <<"Subscribe", " ", "to", " ", "The", " ", "New", " ", "Yorker">>,
    <<" ", "SUBSCRIBE", " ", "NEW", "\n", "YORKER", " ">>,
    <<"subscribe">>,
    <<"w40">>, <<"w200">>, <<"w201">>, <<"w471">>, <<"w472">>, <<"w500">> }

Pages ==
  { pg \in [content : SeqsUpTo(ParagraphPool, MaxParagraphs),
            rest : SeqsUpTo(ParagraphPool, MaxParagraphs)] :
      Len(pg.content) + Len(pg.rest) <= MaxParagraphs }

NoPage == [content |-> <<>>, rest |-> <<>>]
NoBody == [bodyText |-> <<>>, bodyAvailable |-> FALSE, text |-> <<>>]

BodyIdle == bpc = "idle" /\ page = NoPage /\ body = NoBody

\* scrapeArticle has loaded a page
BodyStart == bpc = "page" /\ page \in Pages /\ body = NoBody

\* NEWS_SOURCES[sourceKey].extractBody($)
ExtractBody ==
  /\ bpc = "page"
  /\ body' = extractNewYorkerBody(page)
  /\ bpc' = "extracted"
  /\ UNCHANGED page
  /\ UNCHANGED <<collectVars, dbVars, procVars, scrapeVars, envVars, articleVars>>

(***************************************************************************)
(* lib/multiSiteScraper: scrapeArticle, pickJsonLdArticle,                 *)
(* extractFromJsonLd, extractFromMeta.  A JSON value is a record: kind is  *)
(* "null", "scalar", "array" or "object"; items holds the elements of an   *)
(* array or the value of the @graph member of an object.                   *)
(***************************************************************************)
MaxBlocks == 2       \* ld+json script elements on a page

\* the image member of a structured-data object: absent, a string, a list
NoImage == [array |-> FALSE, urls |-> <<>>]
LdImages == { NoImage,
              [array |-> FALSE, urls |-> <<"ld image">>],
              [array |-> TRUE, urls |-> <<>>],
              [array |-> TRUE, urls |-> <<"ld image 1", "ld image 2">>] }

JsonValue(kind, type, headline, graph, items) ==
  [kind |-> kind, type |-> type, headline |-> headline, name |-> NULL,
   description |-> NULL, image |-> NoImage, graph |-> graph, items |-> items]

\* JSON null, and a JSON string
JsonNullValue == JsonValue("null", NULL, NULL, "none", <<>>)
JsonString == JsonValue("scalar", NULL, NULL, "none", <<>>)

\* an object without @graph: its @type and its headline
Obj(type, headline) == JsonValue("object", type, headline, "none", <<>>)

\* an object whose @graph is the list `items`
GraphObj(type, headline, items) ==
  JsonValue("object", type, headline, "array", items)

\* an object whose @graph is a single object, not a list
GraphSingleObj(type, headline, item) ==
  JsonValue("object", type, headline, "object", <<item>>)

\* a JSON array
Arr(items) == JsonValue("array", NULL, NULL, "none", items)

\* the documents the script blocks of the model's pages hold
JsonSamples ==
  { JsonNullValue,
    JsonString,
    Obj("WebPage", "h0"),
    Obj("NewsArticle", "h1"),
    Obj("[Article,Thing]", "h9"),
    Arr(<<Obj("WebPage", "h0"), Obj("Article", "h2"),
          Obj("NewsArticle", "h1")>>),
    GraphObj("WebPage", "h0",
             <<JsonString, Obj("NewsArticle", "h3"), Obj("Article", "h2")>>),
    GraphObj("Article", "h4", <<Obj("NewsArticle", "h1")>>),
    Arr(<<GraphObj("WebPage", "h0", <<Arr(<<Obj("Article", "h5")>>)>>),
          Obj("NewsArticle", "h1")>>),
    GraphSingleObj("WebPage", "h0", Obj("Article", "h6")),
    Arr(<<JsonNullValue, Arr(<<Arr(<<Obj("WebPage", "h0")>>)>>),
          GraphObj("Organization", "h0", <<Obj("NewsArticle", "h7")>>),
          Obj("Article", "h8")>>) }

\* the text of one script element: empty after trim, text JSON.parse
\* rejects, or the text of a document
ScriptBlocks ==
  { [text |-> "empty", json |-> JsonNullValue],
    [text |-> "broken", json |-> JsonNullValue] }
  \cup { [text |-> "json", json |-> j] : j \in JsonSamples }

\* json['@type'] === 'NewsArticle' || json['@type'] === 'Article'
isArticleType(json) == json.type \in {"NewsArticle", "Article"}

\* pickJsonLdArticle: <<>> for null, <<node>> for the node returned
RECURSIVE pickJsonLdArticle(_)
RECURSIVE pickFirst(_, _)
pickFirst(items, i) ==
  IF i > Len(items) THEN <<>>
  ELSE IF pickJsonLdArticle(items[i]) # <<>> THEN pickJsonLdArticle(items[i])
  ELSE pickFirst(items, i + 1)

pickJsonLdArticle(json) ==
  IF json.kind = "null" THEN <<>>
  ELSE IF json.kind = "array" THEN pickFirst(json.items, 1)
  ELSE IF json.kind = "object"
    THEN IF isArticleType(json) THEN <<json>>
         ELSE IF json.graph = "array" THEN pickFirst(json.items, 1)
         ELSE <<>>
  ELSE <<>>

\* a callback in which a later candidate replaces the article found before
keepLast(current, candidate) ==
  IF candidate # <<>> THEN candidate ELSE current

\* if (candidate && !jsonLdArticle) jsonLdArticle = candidate
keepFirst(current, candidate) ==
  IF candidate # <<>> /\ current = <<>> THEN candidate ELSE current

\* a || b for values that are strings, null or undefined
orElse(a, b) == IF a \in {NULL, ""} THEN b ELSE a

NoFields == [title |-> NULL, description |-> NULL, imageUrl |-> NULL]

\* extractFromJsonLd: {} when no article was picked; an image list gives its
\* first element
extractFromJsonLd(jsonLd) ==
  IF jsonLd = <<>> THEN NoFields
  ELSE [title |-> orElse(orElse(jsonLd[1].headline, jsonLd[1].name), NULL),
        description |-> orElse(jsonLd[1].description, NULL),
        imageUrl |-> IF jsonLd[1].image.urls = <<>> THEN NULL
                     ELSE orElse(jsonLd[1].image.urls[1], NULL)]

\* extractFromMeta: attr('content') of an element that is not there is
\* undefined, $('title').text() without a title element is ''
extractFromMeta(meta) ==
  [title |-> orElse(orElse(orElse(meta.ogTitle, meta.twitterTitle),
                           meta.pageTitle), NULL),
   description |-> orElse(orElse(meta.ogDescription, meta.metaDescription),
                          NULL),
   imageUrl |-> orElse(orElse(meta.ogImage, meta.twitterImage), NULL)]

\* a merge that takes every field from the structured data once it has a
\* title, and from the meta tags otherwise
resolveFromOneSource(fromLd, fromMeta) ==
  IF fromLd.title # NULL THEN fromLd ELSE fromMeta

\* scrapeArticle: title, description and imageUrl of the returned object
resolve(fromLd, fromMeta) ==
  [title |-> orElse(fromLd.title, fromMeta.title),
   description |-> orElse(fromLd.description, fromMeta.description),
   imageUrl |-> orElse(fromLd.imageUrl, fromMeta.imageUrl)]

\* the content attributes of the meta elements and the text of <title>
NoMeta == [ogTitle |-> NULL, twitterTitle |-> NULL, pageTitle |-> "",
           ogDescription |-> NULL, metaDescription |-> NULL,
           ogImage |-> NULL, twitterImage |-> NULL]

Metas == [ogTitle : {NULL, "og title"}, twitterTitle : {NULL, "tw title"},
          pageTitle : {"", "page title"},
          ogDescription : {NULL, "", "og description"},
          metaDescription : {NULL, "meta description"},
          ogImage : {NULL, "og image"}, twitterImage : {NULL, "tw image"}]

\* the article objects of the pages whose fields are resolved
LdArticles ==
  [kind : {"object"}, type : {"NewsArticle"},
   headline : {NULL, "", "ld headline"}, name : {NULL, "ld name"},
   description : {NULL, "ld description"}, image : LdImages,
   graph : {"none"}, items : {<<>>}]

NoDoc == [blocks |-> <<>>, meta |-> NoMeta]

ArticleIdle ==
  /\ xpc = "idle" /\ doc = NoDoc /\ blockIdx = 0
  /\ jsonLdArticle = <<>> /\ jsonLdRaw = 0 /\ resolved = NoFields

\* scrapeArticle has loaded a page, for the structured-data pass
JsonLdStart ==
  /\ xpc = "scripts" /\ blockIdx = 1
  /\ doc \in [blocks : SeqsUpTo(ScriptBlocks, MaxBlocks), meta : {NoMeta}]
  /\ jsonLdArticle = <<>> /\ jsonLdRaw = 0 /\ resolved = NoFields

\* scrapeArticle has loaded a page, for the resolution of the fields
FieldsStart ==
  /\ xpc = "scripts" /\ blockIdx = 1
  /\ doc \in [blocks : {<<>>} \cup
                       {<<[text |-> "json", json |-> j]>> : j \in LdArticles},
              meta : Metas]
  /\ jsonLdArticle = <<>> /\ jsonLdRaw = 0 /\ resolved = NoFields

\* one call of the .each callback: an empty text returns, a text JSON.parse
\* rejects is caught and ignored
ParseBlock ==
  /\ xpc = "scripts" /\ blockIdx <= Len(doc.blocks)
  /\ LET block == doc.blocks[blockIdx]
         candidate == IF block.text = "json"
                        THEN pickJsonLdArticle(block.json) ELSE <<>>
     IN  /\ jsonLdArticle' = keepFirst(jsonLdArticle, candidate)
         /\ jsonLdRaw' = IF candidate # <<>> /\ jsonLdArticle = <<>>
                           THEN blockIdx ELSE jsonLdRaw
  /\ blockIdx' = blockIdx + 1
  /\ UNCHANGED <<xpc, doc, resolved>>
  /\ UNCHANGED <<collectVars, dbVars, procVars, bodyVars, scrapeVars,
                 envVars>>

\* after the loop: extractFromJsonLd, extractFromMeta, the field merge; the
\* body is extracted by NEWS_SOURCES[sourceKey].extractBody($)
ResolveFields ==
  /\ xpc = "scripts" /\ blockIdx > Len(doc.blocks)
  /\ resolved' = resolve(extractFromJsonLd(jsonLdArticle),
                         extractFromMeta(doc.meta))
  /\ xpc' = "done"
  /\ UNCHANGED <<doc, blockIdx, jsonLdArticle, jsonLdRaw>>
  /\ UNCHANGED <<collectVars, dbVars, procVars, bodyVars, scrapeVars,
                 envVars>>

(***************************************************************************)
(* Scraper runner: runScrape, and the source loop of scrapeAllSources.     *)
(***************************************************************************)
MaxCollected == 2    \* <url> records one source's sitemaps hold in a run

\* NEWS_SOURCES: the one configured source (theatlantic is commented out)
NEWS_SOURCES == [newyorker |-> [name |-> "The New Yorker"]]

\* the options runScrape is called with; sources is <<>> when absent and
\* <<list>> when given, limit 0 stands for absent or 0; the command line
\* passes parseInt(process.env.LIMIT, 10) || 50, which may be negative
RunOptions ==
  [limit : {-1, 0, 1, 2},
   sources : { <<>>, << <<>> >>, << <<"newyorker">> >>, << <<"atlantic">> >>,
               << <<"atlantic", "newyorker">> >>,
               << <<"newyorker", "atlantic">> >> }]

\* const limit = options.limit || 50
limitOf(opts) == IF opts.limit = 0 THEN 50 ELSE opts.limit

\* const sources = options.sources || Object.keys(NEWS_SOURCES)
sourcesOf(opts) ==
  IF opts.sources = <<>> THEN <<"newyorker">> ELSE opts.sources[1]

\* Math.ceil(a / b) for positive b
ceilDiv(a, b) == (a + b - 1) \div b

\* Array.prototype.slice(0, n): a negative n counts from the end
slice(list, n) ==
  IF n < 0 THEN SubSeq(list, 1, IF Len(list) + n < 0 THEN 0 ELSE Len(list) + n)
  ELSE SubSeq(list, 1, Min(n, Len(list)))

\* what scrapeArticle read from a page, as far as the run uses it
ExtractedFields == { [title |-> "t1", bodyAvailable |-> TRUE],
                     [title |-> NULL, bodyAvailable |-> FALSE] }

\* the object scrapeArticle returns; it has no analysis members
articleOf(entry, sourceKey, fields) ==
  [url |-> entry.loc, source |-> sourceKey,
   title |-> fields.title, bodyAvailable |-> fields.bodyAvailable,
   category |-> NULL]

\* an allResults that puts the newest result first
pushArticleFront(results, article) == <<article>> \o results

\* allResults.push(article)
pushArticle(results, article) == Append(results, article)

NoRequests == [sitemaps |-> 0, pages |-> 0]

ScrapeIdle ==
  /\ spc = "idle" /\ options = [limit |-> 0, sources |-> <<>>]
  /\ sourceIdx = 0 /\ selected = <<>> /\ entryIdx = 0
  /\ allResults = <<>> /\ attempts = <<>> /\ candidates = <<>>
  /\ requests = NoRequests
  /\ runResult = <<>> /\ scrapeRaised = NULL

\* runScrape(options) is called
ScrapeStart ==
  /\ spc = "start" /\ options \in RunOptions
  /\ sourceIdx = 0 /\ selected = <<>> /\ entryIdx = 0
  /\ allResults = <<>> /\ attempts = <<>> /\ candidates = <<>>
  /\ requests = NoRequests
  /\ runResult = <<>> /\ scrapeRaised = NULL

Configured == connectionString = "postgres://db"
AnyConnection == connectionString \in {NULL, "postgres://db"}

ConfigurationError == "DATABASE_URL or POSTGRES_URL must be set for Postgres."

\* move to the source after sourceIdx; after the last one scrapeAllSources
\* returns allResults and runScrape goes on to saveArticles
nextSource(k) ==
  IF k >= Len(sourcesOf(options))
    THEN /\ spc' = "save" /\ sourceIdx' = k + 1
         /\ selected' = <<>> /\ entryIdx' = 0
    ELSE /\ spc' = "sources" /\ sourceIdx' = k + 1
         /\ selected' = <<>> /\ entryIdx' = 0

\* runScrape: await initSchema(), which throws when pool is null
InitSchema ==
  /\ spc = "start"
  /\ IF connectionString = NULL
       THEN /\ spc' = "failed" /\ scrapeRaised' = ConfigurationError
            /\ UNCHANGED <<sourceIdx, selected, entryIdx>>
       ELSE \/ /\ nextSource(0) /\ UNCHANGED scrapeRaised
            \/ /\ spc' = "failed" /\ scrapeRaised' = "query failed"
               /\ UNCHANGED <<sourceIdx, selected, entryIdx>>
  /\ UNCHANGED <<options, allResults, attempts, candidates, requests,
                 runResult>>
  /\ UNCHANGED <<collectVars, dbVars, procVars, bodyVars, envVars, articleVars>>

\* the catch block of the source loop evaluates NEWS_SOURCES[sourceKey].name
\* for its message: for a key without an entry that read throws again, out
\* of the handler
catchSourceErrorThrows(sourceKey) == sourceKey \notin DOMAIN NEWS_SOURCES

\* one iteration of the source loop for a key without an entry in
\* NEWS_SOURCES: NEWS_SOURCES[sourceKey].name throws in the try block, the
\* catch block throws on the same read, scrapeAllSources rejects and
\* runScrape rethrows
SourceUnknown ==
  /\ spc = "sources"
  /\ sourcesOf(options)[sourceIdx] \notin DOMAIN NEWS_SOURCES
  /\ IF catchSourceErrorThrows(sourcesOf(options)[sourceIdx])
       THEN /\ spc' = "failed" /\ scrapeRaised' = "TypeError"
            /\ UNCHANGED <<sourceIdx, selected, entryIdx>>
       ELSE /\ nextSource(sourceIdx) /\ UNCHANGED scrapeRaised
  /\ UNCHANGED <<options, allResults, attempts, candidates, requests,
                 runResult>>
  /\ UNCHANGED <<collectVars, dbVars, procVars, bodyVars, envVars, articleVars>>

\* one iteration of the source loop up to the extraction loop: collect the
\* source's sitemaps, sort, cut to the per-source share
CollectSource ==
  /\ spc = "sources"
  /\ sourcesOf(options)[sourceIdx] \in DOMAIN NEWS_SOURCES
  /\ \E parsed \in SeqsUpTo(SitemapEntry, MaxCollected) :
       LET sorted == sortEntries(dedupe(pushMatching(<<>>, parsed)))
           share == ceilDiv(limitOf(options), Len(sourcesOf(options)))
           sel == slice(sorted, share)
       IN  /\ entries' = sorted
           /\ candidates' = candidates \o sel
           /\ IF sel = <<>>
                THEN nextSource(sourceIdx)
                ELSE /\ spc' = "extract" /\ selected' = sel /\ entryIdx' = 1
                     /\ UNCHANGED sourceIdx
  /\ requests' = [requests EXCEPT !.sitemaps = @ + NumSitemaps]
  /\ UNCHANGED <<options, allResults, attempts, runResult, scrapeRaised>>
  /\ UNCHANGED <<cpc, shard, all, deduped, fetched>>
  /\ UNCHANGED <<dbVars, procVars, bodyVars, envVars, articleVars>>

\* the end of one iteration of the extraction loop
finishEntry ==
  IF entryIdx = Len(selected)
    THEN nextSource(sourceIdx)
    ELSE /\ entryIdx' = entryIdx + 1
         /\ UNCHANGED <<spc, sourceIdx, selected>>

\* one iteration of the extraction loop: scrapeArticle returned
ScrapeArticleOk ==
  /\ spc = "extract"
  /\ \E fields \in ExtractedFields :
       LET article == articleOf(selected[entryIdx],
                                sourcesOf(options)[sourceIdx], fields)
       IN  /\ allResults' = pushArticle(allResults, article)
           /\ attempts' = Append(attempts, [loc |-> selected[entryIdx].loc,
                                            article |-> <<article>>])
  /\ requests' = [requests EXCEPT !.pages = @ + 1]
  /\ finishEntry
  /\ UNCHANGED <<options, candidates, runResult, scrapeRaised>>
  /\ UNCHANGED <<collectVars, dbVars, procVars, bodyVars, envVars, articleVars>>

\* one iteration of the extraction loop: scrapeArticle threw (the request
\* failed or the page could not be read); the catch block logs
ScrapeArticleFail ==
  /\ spc = "extract"
  /\ attempts' = Append(attempts, [loc |-> selected[entryIdx].loc,
                                   article |-> <<>>])
  /\ requests' = [requests EXCEPT !.pages = @ + 1]
  /\ finishEntry
  /\ UNCHANGED <<options, allResults, candidates, runResult, scrapeRaised>>
  /\ UNCHANGED <<collectVars, dbVars, procVars, bodyVars, envVars, articleVars>>

\* saveArticles from article i on: the upserts in `failing` throw and are
\* logged, the others return their row
RECURSIVE saveFrom(_, _, _, _)
saveFrom(list, i, failing, acc) ==
  IF i > Len(list) THEN acc
  ELSE IF i \in failing THEN saveFrom(list, i + 1, failing, acc)
  ELSE saveFrom(list, i + 1, failing,
         [table |-> insertOnConflictUpdate(acc.table, list[i], acc.id,
                                           now, TRUE),
          id    |-> acc.id + 1,
          saved |-> acc.saved + 1])

\* runScrape: await saveArticles(articles), then the return value
SaveArticles ==
  /\ spc = "save"
  /\ \E failing \in SUBSET (1..Len(allResults)) :
       LET res == saveFrom(allResults, 1, failing,
                           [table |-> artTable, id |-> nextId.art,
                            saved |-> 0])
       IN  /\ artTable' = res.table
           /\ nextId' = [nextId EXCEPT !.art = res.id]
           /\ runResult' = << [scraped |-> Len(allResults),
                               saved   |-> res.saved,
                               sources |-> IF options.sources = <<>>
                                             THEN <<"newyorker">>
                                             ELSE options.sources[1]] >>
  /\ spc' = "done"
  /\ UNCHANGED <<options, sourceIdx, selected, entryIdx, allResults,
                 attempts, candidates, requests, scrapeRaised>>
  /\ UNCHANGED <<dpc, now, nyTable, lastUpsert, writers, commits>>
  /\ UNCHANGED <<collectVars, procVars, bodyVars, envVars, articleVars>>

(***************************************************************************)
(* Specifications.                                                         *)
(***************************************************************************)
\* one source of scrapeAllSources: collect, de-duplicate, sort
InitCollect == CollectStart /\ DbIdle /\ ProcIdle /\ BodyIdle /\ ArticleIdle
  /\ ScrapeIdle /\ Configured
NextCollect == FetchShardOk \/ FetchShardFail
SpecCollect == InitCollect /\ [][NextCollect]_vars

\* a sequence of upserts on the two tables
InitStore == CollectIdle /\ DbStart /\ ProcIdle /\ BodyIdle /\ ArticleIdle
  /\ ScrapeIdle /\ Configured
NextStore == Tick \/ UpsertNewYorker \/ UpsertArticle
SpecStore == InitStore /\ [][NextStore]_vars

\* two concurrent upsertArticle calls on table articles
InitConcurrent ==
  /\ CollectIdle /\ ConcurrentStart /\ ProcIdle /\ BodyIdle /\ ArticleIdle
  /\ ScrapeIdle
  /\ Configured
NextConcurrent ==
  \/ Tick
  \/ \E w \in WriterIds : BeginUpsert(w)
  \/ \E w \in WriterIds : WriteUpsert(w)
  \/ \E w \in WriterIds : CommitUpsert(w)
SpecConcurrent == InitConcurrent /\ [][NextConcurrent]_vars

\* processDailyContent up to the headline
InitSelect == CollectIdle /\ DbIdle /\ ProcStart /\ BodyIdle /\ ArticleIdle
  /\ ScrapeIdle /\ AnyConnection
NextSelect ==
  \/ GetRecentArticles \/ GetRecentArticlesFail \/ AnalyzeArticle
  \/ HeadlineGenerated \/ HeadlineFallback
SpecSelect == InitSelect /\ [][NextSelect]_vars

\* the ranking of selectTopArticles on lists of analyzed articles
InitRank ==
  /\ CollectIdle /\ DbIdle /\ BodyIdle /\ ArticleIdle /\ ScrapeIdle
  /\ Configured
  /\ RankStart(SeqsUpTo(ReplySamples, MaxRanked), {2, TopK})
NextRank == ScoreSortSlice
SpecRank == InitRank /\ [][NextRank]_vars

\* the scoring of selectTopArticles on every single analysis
InitScore ==
  /\ CollectIdle /\ DbIdle /\ BodyIdle /\ ArticleIdle /\ ScrapeIdle
  /\ Configured
  /\ RankStart([1..1 -> Replies], {TopK})
SpecScore == InitScore /\ [][NextRank]_vars

\* extractNewYorkerBody on every page of the pool
InitBody == CollectIdle /\ DbIdle /\ ProcIdle /\ BodyStart /\ ArticleIdle
  /\ ScrapeIdle /\ Configured
NextBody == ExtractBody
SpecBody == InitBody /\ [][NextBody]_vars

\* processDailyContent from its first query to its return
InitDaily ==
  /\ CollectIdle /\ DbIdle /\ DailyStart /\ BodyIdle /\ ArticleIdle
  /\ ScrapeIdle
  /\ AnyConnection
NextDaily ==
  \/ GetRecentArticles \/ GetRecentArticlesFail \/ AnalyzeArticle
  \/ HeadlineGenerated \/ HeadlineFallback
  \/ SummaryGenerated \/ SummaryFallback
  \/ StoreProcessedContent \/ StoreProcessedContentFail
SpecDaily == InitDaily /\ [][NextDaily]_vars

\* table processed_content under repeated runs and the publish endpoint
InitBundle ==
  /\ CollectIdle /\ DbStart /\ ProcIdle /\ BodyIdle /\ ArticleIdle
  /\ ScrapeIdle
  /\ Configured
NextBundle ==
  \/ RunReady \/ StoreProcessedContent \/ StoreProcessedContentFail
  \/ PublishLatest \/ Tick
SpecBundle == InitBundle /\ [][NextBundle]_vars

\* runScrape: initSchema, the source loop of scrapeAllSources, saveArticles
InitScrape ==
  /\ CollectIdle /\ DbIdle /\ ProcIdle /\ BodyIdle /\ ArticleIdle
  /\ ScrapeStart /\ AnyConnection
NextScrape ==
  \/ InitSchema \/ SourceUnknown \/ CollectSource
  \/ ScrapeArticleOk \/ ScrapeArticleFail \/ SaveArticles
SpecScrape == InitScrape /\ [][NextScrape]_vars

\* scrapeArticle: the structured-data pass over the script blocks of a page
InitJsonLd ==
  /\ CollectIdle /\ DbIdle /\ ProcIdle /\ BodyIdle /\ ScrapeIdle
  /\ JsonLdStart /\ Configured
NextArticle == ParseBlock \/ ResolveFields
SpecJsonLd == InitJsonLd /\ [][NextArticle]_vars

\* scrapeArticle: title, description and image of a page
InitFields ==
  /\ CollectIdle /\ DbIdle /\ ProcIdle /\ BodyIdle /\ ScrapeIdle
  /\ FieldsStart /\ Configured
SpecFields == InitFields /\ [][NextArticle]_vars

(***************************************************************************)
(* Properties.                                                             *)
(***************************************************************************)
firstIndexOf(list, loc) ==
  CHOOSE i \in 1..Len(list) :
    list[i].loc = loc /\ \A k \in 1..(i - 1) : list[k].loc # loc

\* C1: collectNewsUrls returns each distinct loc gathered across the shards
\* exactly once, and the record returned for a loc is the first one
\* encountered, not a later duplicate.
C1_DedupFirstSeen ==
  cpc = "sorted" =>
    /\ \A i \in 1..Len(all) :
         Cardinality({k \in 1..Len(deduped) : deduped[k].loc = all[i].loc}) = 1
    /\ \A k \in 1..Len(deduped) :
         /\ \E i \in 1..Len(all) : all[i].loc = deduped[k].loc
         /\ deduped[k] = all[firstIndexOf(all, deduped[k].loc)]

\* a loc was gathered twice with different lastmod and the first was kept
C1_Witness ==
  /\ cpc = "sorted"
  /\ \E i, j \in 1..Len(all) :
       /\ i < j /\ all[i].loc = all[j].loc /\ all[i].lastmod # all[j].lastmod
       /\ \E k \in 1..Len(deduped) : deduped[k] = all[i]
  /\ Len(deduped) >= 2

positionIn(list, loc) == CHOOSE k \in 1..Len(list) : list[k].loc = loc

\* C7: after the per-source sort, two entries that carry an identical
\* lastmod value are in the relative order they had in the de-duplicated list.
C7_SortStableOnEqualLastmod ==
  cpc = "sorted" =>
    \A i, j \in 1..Len(deduped) :
      (i < j /\ deduped[i].lastmod # NULL
             /\ deduped[i].lastmod = deduped[j].lastmod)
        => positionIn(entries, deduped[i].loc)
             < positionIn(entries, deduped[j].loc)

\* two entries with the same lastmod follow a later-dated entry that the sort
\* had to move, and a third entry came first in the input
C7_Witness ==
  /\ cpc = "sorted" /\ Len(deduped) = 3
  /\ deduped[1].lastmod = "2025-11-01" /\ deduped[2].lastmod = "2025-11-01"
  /\ deduped[3].lastmod = "2025-11-02"
  /\ entries = <<deduped[3], deduped[1], deduped[2]>>

\* C8: after the per-source sort the entries with a lastmod are in
\* non-increasing lastmod order, every entry lacking lastmod comes after
\* every entry that has one, and the entries lacking lastmod keep their
\* encounter order.
C8_SortedByLastmodNullsLast ==
  cpc = "sorted" =>
    /\ Len(entries) = Len(deduped)
    /\ \A k \in 1..Len(deduped) : \E m \in 1..Len(entries) : entries[m] = deduped[k]
    /\ \A i, j \in 1..Len(entries) :
         i < j =>
           /\ (entries[i].lastmod # NULL /\ entries[j].lastmod # NULL)
                => DateOf(entries[i].lastmod) >= DateOf(entries[j].lastmod)
           /\ entries[i].lastmod = NULL => entries[j].lastmod = NULL
    /\ \A i, j \in 1..Len(deduped) :
         (i < j /\ deduped[i].lastmod = NULL /\ deduped[j].lastmod = NULL)
           => positionIn(entries, deduped[i].loc)
                < positionIn(entries, deduped[j].loc)

\* two entries without lastmod came before a dated one and ended after it
C8_Witness ==
  /\ cpc = "sorted" /\ Len(deduped) = 3
  /\ deduped[1].lastmod = NULL /\ deduped[2].lastmod = NULL
  /\ deduped[3].lastmod # NULL
  /\ entries = <<deduped[3], deduped[1], deduped[2]>>

tableOf(name) == IF name = "ny" THEN nyTable ELSE artTable

oneRowPerUrl(table) ==
  \A i, j \in 1..Len(table) : table[i].url = table[j].url => i = j

\* C2: upserting an article whose url is already stored never creates a
\* second record: each table holds exactly one row per distinct url, and a
\* repeated upsert of a url leaves the row's url (and identity) unchanged and
\* sets scraped_at to a value not earlier than the previous one.
C2_UpsertOneRowPerUrl ==
  /\ oneRowPerUrl(nyTable) /\ oneRowPerUrl(artTable)
  /\ lastUpsert.table # "none" =>
       /\ Len(rowsOf(tableOf(lastUpsert.table), lastUpsert.url)) = 1
       /\ Len(lastUpsert.before) = 1 =>
            LET row == rowsOf(tableOf(lastUpsert.table), lastUpsert.url)[1]
                old == lastUpsert.before[1]
            IN  /\ row.url = old.url /\ row.id = old.id
                /\ row.scraped_at >= old.scraped_at

\* a stored url was upserted again, later, with another title
C2_Witness ==
  /\ lastUpsert.table = "art" /\ Len(lastUpsert.before) = 1
  /\ Len(artTable) = 1
  /\ artTable[1].scraped_at > lastUpsert.before[1].scraped_at
  /\ artTable[1].title # lastUpsert.before[1].title

analyzedIds == {i \in 1..Len(outcomes) : outcomes[i] = "analyzed"}

failedIds == {i \in 1..Len(outcomes) : outcomes[i] \in {"error", "unparseable"}}

idsOf(list) == {list[k].id : k \in 1..Len(list)}

\* C3: when the analysis of some articles fails (collaborator error or
\* unparseable reply) selectTopArticles does not raise: the ranked output is
\* over exactly the articles whose analysis succeeded and the failed
\* articles are absent from it.
C3_FailedAnalysesSkipped ==
  /\ raised => outcomes = <<>>
  /\ ppc \in {"headline", "headlined"} =>
       /\ ~raised
       /\ Len(outcomes) = Len(articles)
       /\ idsOf(topArticles) = analyzedIds
       /\ Len(topArticles) = Cardinality(analyzedIds)
       /\ idsOf(topArticles) \cap failedIds = {}

\* three articles, one collaborator error, one unparseable reply, and a
\* ranking over the remaining one
C3_Witness ==
  /\ ppc = "headline" /\ Len(articles) = 3
  /\ \E i, j \in 1..3 : outcomes[i] = "error" /\ outcomes[j] = "unparseable"
  /\ Len(topArticles) = 1

\* the weight table and the boosts as the specification states them
statedCategoryWeight(category) ==
  CASE category = "politics" -> 25
    [] category = "culture" -> 20
    [] category = "business" -> 20
    [] category = "international" -> 15
    [] category = "lifestyle" -> 10
    [] category = "opinion" -> 10
    [] OTHER -> 10

statedBoost(tier) ==
  CASE tier = "high" -> 12 [] tier = "medium" -> 11 [] OTHER -> 10

isNumber(score) == score # NaN

\* C5: selectTopArticles with target count K returns exactly min(K, n)
\* articles, n the number of analyzed articles, and they are the K
\* highest-scoring ones in non-increasing finalScore order.
C5_TopKInScoreOrder ==
  ppc = "ranked" =>
    /\ Len(topArticles) = Min(targetCount, Len(analyzedArticles))
    /\ \A i, j \in 1..Len(topArticles) :
         (i < j /\ isNumber(topArticles[i].finalScore)
                /\ isNumber(topArticles[j].finalScore))
           => topArticles[i].finalScore >= topArticles[j].finalScore
    /\ \A i \in 1..Len(topArticles) : \A k \in 1..Len(analyzedArticles) :
         (analyzedArticles[k].id \notin idsOf(topArticles)
          /\ isNumber(topArticles[i].finalScore)
          /\ isNumber(finalScoreOf(analyzedArticles[k].analysis)))
           => topArticles[i].finalScore
                >= finalScoreOf(analyzedArticles[k].analysis)

\* C6: in the ranking, two articles with equal finalScore are in the same
\* relative order as in the input article list.
C6_RankingStable ==
  ppc = "ranked" =>
    \A i, j \in 1..Len(topArticles) :
      (i < j /\ isNumber(topArticles[i].finalScore)
             /\ topArticles[i].finalScore = topArticles[j].finalScore)
        => topArticles[i].id < topArticles[j].id

\* the claims C5 and C6 on the lists where every reply carried its scores
allScoresNumeric ==
  \A k \in 1..Len(analyzedArticles) :
    isNumber(finalScoreOf(analyzedArticles[k].analysis))

RankingOfNumericScores ==
  allScoresNumeric => (C5_TopKInScoreOrder /\ C6_RankingStable)

\* C10 as stated: when the headline call fails for a non-empty selection
\* the result is the title of the first selected article, and nothing is
\* raised.
C10_FallbackIsTopTitle ==
  (ppc = "headlined" /\ headlineFailed /\ topArticles # <<>>) =>
    /\ ~raised
    /\ mainHeadline = topArticles[1].title

\* C10 amended: when the headline call fails for a non-empty selection the
\* result is the title of the first selected article if it has one and the
\* constant 'Daily News Summary' if it has none, and nothing is raised.
C10_FallbackIsTopTitleOrConstant ==
  (ppc = "headlined" /\ headlineFailed /\ topArticles # <<>>) =>
    /\ ~raised
    /\ mainHeadline # NULL
    /\ topArticles[1].title # NULL => mainHeadline = topArticles[1].title
    /\ topArticles[1].title = NULL => mainHeadline = "Daily News Summary"

\* the headline call failed with two articles selected, the first titled
C10_Witness ==
  /\ ppc = "headlined" /\ headlineFailed /\ Len(topArticles) >= 2
  /\ topArticles[1].title # NULL /\ topArticles[1].title # topArticles[2].title
  /\ mainHeadline = topArticles[1].title

\* C9: bodyAvailable is false exactly when the text is at most 200
\* characters long, or shorter than 500 characters and containing, in any
\* letter case, both the subscription marker and the brand name.
C9_BodyAvailableRule ==
  bpc = "extracted" =>
    LET t == body.text
        hasSubscribe == \E k \in 1..Len(t) :
                          t[k] \in {"subscribe", "Subscribe", "SUBSCRIBE"}
        hasBrand == \E k \in 1..(Len(t) - 2) :
                      /\ t[k] \in {"new", "New", "NEW"}
                      /\ t[k + 1] = " "
                      /\ t[k + 2] \in {"yorker", "Yorker", "YORKER"}
    IN  (body.bodyAvailable = FALSE)
          <=> (length(t) <= 200 \/ (length(t) < 500 /\ hasSubscribe /\ hasBrand))

\* a teaser longer than 200 characters was flagged
C9_Witness ==
  /\ bpc = "extracted" /\ ~body.bodyAvailable
  /\ length(body.text) > 200 /\ length(body.text) < 500
  /\ body.text[1] = "SUBSCRIBE"

\* more than 1000 characters of ordinary text were kept
C9_WitnessOrdinary ==
  /\ bpc = "extracted" /\ body.bodyAvailable
  /\ length(body.text) >= 1000
  /\ \A k \in 1..Len(body.text) : body.text[k] \in {"w500", " "}

\* C11: a sitemap whose fetch or parse fails does not stop collectNewsUrls:
\* every sitemap is attempted, nothing is raised, and the returned list has
\* an entry for every matching loc read from the sitemaps that succeeded.
C11_ShardFailureIsolated ==
  /\ cpc \in {"fetch", "sorted"} => Len(fetched.ok) = shard - 1
  /\ cpc = "sorted" =>
       /\ Len(fetched.ok) = NumSitemaps
       /\ \A loc \in fetched.locs :
            /\ \E k \in 1..Len(deduped) : deduped[k].loc = loc
            /\ \E k \in 1..Len(entries) : entries[k].loc = loc

\* the second sitemap failed, the first and the third succeeded, and the
\* entries of both are returned
C11_Witness ==
  /\ cpc = "sorted"
  /\ fetched.ok = <<TRUE, FALSE, TRUE>>
  /\ Cardinality(fetched.locs) >= 2
  /\ Len(deduped) = Cardinality(fetched.locs)

\* the articles of the scrapeArticle calls that returned, in call order
RECURSIVE articlesOfAttempts(_, _)
articlesOfAttempts(list, i) ==
  IF i > Len(list) THEN <<>>
  ELSE list[i].article \o articlesOfAttempts(list, i + 1)

\* C12: in scrapeAllSources a candidate URL whose extraction fails adds no
\* article and stops nothing: the candidates are attempted one by one in
\* their order, all of them by the time the function returns, and allResults
\* is exactly the articles of the extractions that succeeded, in that order.
C12_ExtractionFailureIsolated ==
  /\ Len(attempts) <= Len(candidates)
  /\ \A j \in 1..Len(attempts) : attempts[j].loc = candidates[j].loc
  /\ allResults = articlesOfAttempts(attempts, 1)
  /\ \A j \in 1..Len(attempts) :
       attempts[j].article # <<>> => attempts[j].article[1].url = attempts[j].loc
  /\ spc \in {"save", "done"} => Len(attempts) = Len(candidates)

\* the first of two candidates failed, the second was extracted and returned
C12_Witness ==
  /\ spc = "save"
  /\ Len(candidates) = 2 /\ Len(attempts) = 2
  /\ attempts[1].article = <<>>
  /\ Len(allResults) = 1 /\ allResults[1].url = candidates[2].loc

\* the requested source keys that have an entry in NEWS_SOURCES
configuredRequested ==
  SelectSeq(sourcesOf(options), LAMBDA k : k \in DOMAIN NEWS_SOURCES)

\* C13: a failure while one requested source is handled, a requested key
\* without an entry in NEWS_SOURCES included, never aborts the run: nothing
\* is raised out of the source loop, and when scrapeAllSources has returned
\* every other requested source has been collected.
C13_SourceFailureIsolated ==
  /\ spc = "failed" => scrapeRaised \in {ConfigurationError, "query failed"}
  /\ spc \in {"save", "done"} =>
       requests.sitemaps = NumSitemaps * Len(configuredRequested)

\* the numbers a finished runScrape reports
reportedCounts == {runResult[1].scraped, runResult[1].saved}

\* C14: the result of a run tells, for the extraction stage, how many items
\* were attempted and how many succeeded, so the number of candidates
\* dropped can be read from it.
C14_RunReportsAttemptedAndSucceeded ==
  spc = "done" =>
    /\ Len(attempts) \in reportedCounts
    /\ Len(allResults) \in reportedCounts

\* C15: with no storage connection configured a run of processDailyContent
\* fails with the configuration error before any stage starts: it never
\* gets past its start and issues no collaborator call.
C15_NoStageWithoutStorage ==
  connectionString = NULL =>
    /\ ppc \in {"start", "failed"}
    /\ calls = NoCalls
    /\ ppc = "failed" => procError = ConfigurationError

\* runScrape, which starts with initSchema, does stop there: no sitemap or
\* page is requested and the error raised is the configuration error
ScrapeRunStopsAtInitSchema ==
  connectionString = NULL =>
    /\ spc \in {"start", "failed"}
    /\ requests = NoRequests
    /\ spc = "failed" => scrapeRaised = ConfigurationError

\* C16: a run of processDailyContent that completes appends exactly one row
\* to processed_content, rows are added in no other way and never removed,
\* and no step changes the id, headline, articles or processed_at of a row
\* already stored: only its published flag may change.
C16_BundlesImmutable ==
  [][ /\ Len(bundles') >= Len(bundles)
      /\ \A k \in 1..Len(bundles) :
           /\ bundles'[k].id = bundles[k].id
           /\ bundles'[k].headline = bundles[k].headline
           /\ bundles'[k].articles = bundles[k].articles
           /\ bundles'[k].processed_at = bundles[k].processed_at
      /\ (ppc' = "done" /\ ppc # "done") <=> Len(bundles') = Len(bundles) + 1
      /\ Len(bundles') # Len(bundles) =>
           /\ Len(bundles') = Len(bundles) + 1
           /\ bundles'[Len(bundles')].headline = mainHeadline
           /\ ~bundles'[Len(bundles')].published ]_vars

\* a second bundle was stored after the first had been published, then the
\* second was published too
C16_Witness ==
  /\ Len(bundles) = 2
  /\ bundles[1].published /\ bundles[2].published
  /\ bundles[1].processed_at < bundles[2].processed_at
  /\ bundles[1].headline # bundles[2].headline
  /\ bundles[1].articles # bundles[2].articles

\* C17: once two concurrent upserts of the same url have both committed,
\* table articles has exactly one row for the url, and its title,
\* body_available and scraped_at are those of the upsert that committed
\* last: never two rows, never fields of the two writes mixed.
C17_ConcurrentUpsertLastCommitWins ==
  (Len(commits) = 2
   /\ writers[1].article[1].url = writers[2].article[1].url) =>
    LET last == writers[commits[2]]
        rows == rowsOf(artTable, last.article[1].url)
    IN  /\ Len(rows) = 1
        /\ Len(artTable) = 1
        /\ rows[1].title = valuesOf(last.article[1]).title
        /\ rows[1].body_available = valuesOf(last.article[1]).body_available
        /\ rows[1].scraped_at = last.ts

\* both upserts of one url committed; they differ in title and body flag,
\* the one that committed last had started first, and the row is its write
C17_Witness ==
  /\ Len(commits) = 2
  /\ writers[1].article[1].url = writers[2].article[1].url
  /\ writers[1].article[1].title = "t1" /\ writers[2].article[1].title = NULL
  /\ writers[1].article[1].bodyAvailable # writers[2].article[1].bodyAvailable
  /\ writers[commits[2]].ts < writers[commits[1]].ts
  /\ Len(artTable) = 1
  /\ artTable[1].scraped_at = writers[commits[2]].ts
  /\ artTable[1].title = valuesOf(writers[commits[2]].article[1]).title

\* the articles read so far that have a body: body_available and a text
withBody == {i \in 1..Len(outcomes) :
               /\ articles[i].body_available
               /\ articles[i].body_text \notin {NULL, ""}}

\* C18: analyzeArticleContent issues no collaborator call for an article
\* without a body (body_available false or no body_text) and returns
\* nothing for it, so the analysis calls issued are exactly one for each
\* article with a body.
C18_NoCallWithoutBody ==
  /\ \A i \in 1..Len(outcomes) : outcomes[i] = "skipped" <=> i \notin withBody
  /\ analyzedIds \subseteq withBody
  /\ calls.analysis = Cardinality(withBody)
  /\ calls.analysis = Cardinality({i \in 1..Len(outcomes) :
                                     outcomes[i] # "skipped"})

\* three articles read: one flagged without a body, one flagged with a body
\* but without text, one with a body; one call was issued
C18_Witness ==
  /\ ppc \in {"headline", "headlined"} /\ Len(articles) = 3
  /\ \E i, j \in 1..3 :
       /\ ~articles[i].body_available
       /\ articles[j].body_available /\ articles[j].body_text = NULL
  /\ calls.analysis = 1 /\ Len(topArticles) = 1

\* an analysis that matches the schema of the analysis prompt
matchesSchema(analysis) ==
  /\ analysis.category # NULL
  /\ analysis.qualityScore \in 1..10
  /\ analysis.relevanceScore \in 1..10
  /\ analysis.engagementPotential \in {"high", "medium", "low"}

\* C19: a reply that parses but misses a required field, or has a score
\* outside 1..10, yields no analysis: every article kept for scoring and
\* every article in the ranking has an analysis that matches the schema.
C19_MalformedReplyYieldsNoAnalysis ==
  /\ \A k \in 1..Len(analyzedArticles) :
       matchesSchema(analyzedArticles[k].analysis)
  /\ \A k \in 1..Len(topArticles) : matchesSchema(topArticles[k].analysis)

\* the order of the stages that both C20 and its amended form state: the
\* ranking exists only when every article read went through the analysis
\* loop, and a bundle is stored only when headline and all summaries exist
analysisBeforeRanking ==
  ppc \in {"headline", "headlined", "done"} => Len(outcomes) = Len(articles)

storeAfterHeadlineAndSummaries ==
  (bundles # <<>> \/ ppc = "done") =>
    /\ mainHeadline # NULL
    /\ Len(enhancedArticles) = Len(topArticles)
    /\ Len(bundles) = 1
    /\ bundles[1].headline = mainHeadline
    /\ Len(bundles[1].articles) = Len(topArticles)

\* C20 as stated: all candidates are analyzed before the ranking, the
\* summary of every selected article exists before the headline is
\* generated, and the bundle is stored only after both exist.
C20_StagesInStatedOrder ==
  /\ analysisBeforeRanking
  /\ mainHeadline # NULL => Len(enhancedArticles) = Len(topArticles)
  /\ storeAfterHeadlineAndSummaries

\* C20 amended: all candidates are analyzed before the ranking, the
\* headline is generated before the first summary, and the bundle is stored
\* only after the headline and the summary of every selected article exist.
C20_HeadlineBeforeSummaries ==
  /\ analysisBeforeRanking
  /\ (enhancedArticles # <<>> \/ calls.summary > 0) =>
       (mainHeadline # NULL /\ calls.headline = 1)
  /\ storeAfterHeadlineAndSummaries

\* a run with two selected articles went through all its stages
C20_Witness ==
  /\ ppc = "done" /\ Len(articles) = 2 /\ Len(topArticles) = 2
  /\ calls = [analysis |-> 2, headline |-> 1, summary |-> 2]
  /\ Len(bundles) = 1 /\ Len(bundles[1].articles) = 2

\* a step of the summary loop in which the collaborator was called and did
\* not answer: the summary pushed is not the collaborator's text
summaryCallFailed ==
  /\ calls'.summary = calls.summary + 1
  /\ Len(enhancedArticles') = Len(enhancedArticles) + 1
  /\ enhancedArticles'[Len(enhancedArticles')].enhancedSummary
       # "generated summary"

\* the article the last step of the summary loop handled, and its summary
lastEnhanced == enhancedArticles'[Len(enhancedArticles')]

\* a completed run stored one bundle that holds every selected article, in
\* the order of the selection
bundleHoldsSelection ==
  ppc = "done" =>
    /\ ~raised /\ Len(bundles) = 1
    /\ [k \in 1..Len(bundles[1].articles) |-> bundles[1].articles[k].id]
         = [k \in 1..Len(topArticles) |-> topArticles[k].id]

\* C21 as stated: when the summary collaborator call fails for a selected
\* article, its enhancedSummary is that article's stored description, the
\* run does not raise, and the bundle stored holds every selected article.
C21_SummaryFallbackIsDescription ==
  /\ [][summaryCallFailed =>
          /\ lastEnhanced.enhancedSummary = lastEnhanced.description
          /\ lastEnhanced.id = topArticles[Len(enhancedArticles')].id
          /\ ~raised' /\ ppc' = "headlined"]_vars
  /\ []bundleHoldsSelection

\* C21 amended: when the summary collaborator call fails for a selected
\* article, its enhancedSummary is that article's stored description if it
\* has one and the constant 'Summary not available' if it has none; the run
\* does not raise, and the bundle stored holds every selected article.
C21_SummaryFallbackIsDescriptionOrConstant ==
  /\ [][summaryCallFailed =>
          /\ lastEnhanced.enhancedSummary =
               IF lastEnhanced.description = NULL
                 THEN "Summary not available"
                 ELSE lastEnhanced.description
          /\ lastEnhanced.id = topArticles[Len(enhancedArticles')].id
          /\ ~raised' /\ ppc' = "headlined"]_vars
  /\ []bundleHoldsSelection

\* a run stored a bundle of two articles after the summary call failed for
\* both: one carries its description, the other the constant
C21_Witness ==
  /\ ppc = "done" /\ Len(bundles) = 1 /\ Len(bundles[1].articles) = 2
  /\ calls.summary = 2
  /\ \E k \in 1..2 :
       /\ bundles[1].articles[k].description # NULL
       /\ bundles[1].articles[k].enhancedSummary =
            bundles[1].articles[k].description
  /\ \E k \in 1..2 :
       /\ bundles[1].articles[k].description = NULL
       /\ bundles[1].articles[k].enhancedSummary = "Summary not available"

\* C22: the result of extractNewYorkerBody has bodyText null whenever
\* bodyAvailable is false, whatever text was extracted, and has as bodyText
\* the text kept, non-null and longer than 200 characters, whenever
\* bodyAvailable is true.
C22_BodyTextNullIffUnavailable ==
  bpc = "extracted" =>
    /\ ~body.bodyAvailable => body.bodyText = <<>>
    /\ body.bodyAvailable =>
         /\ body.bodyText = <<body.text>>
         /\ body.text = normalize(selectBody(page, 1, <<>>))
         /\ length(body.text) > 200

\* a text of more than 200 characters was extracted and judged a paywall
\* notice: the result carries no text
C22_Witness ==
  /\ bpc = "extracted" /\ ~body.bodyAvailable
  /\ length(body.text) > 200 /\ body.bodyText = <<>>

\* a loc has one of the include-patterns of the source inside it
containsPattern(loc) ==
  \E i \in 1..Len(loc) :
    loc[i] \in {"/magazine/", "/culture/", "/podcast/", "/humor/",
                "/books/", "/business/", "/tech/", "/politics/"}

locsOf(list) == {list[k].loc : k \in 1..Len(list)}

\* C23: collectNewsUrls keeps a sitemap entry if and only if its loc
\* contains at least one include-pattern of the source as a substring: no
\* entry that matches no pattern is ever pushed or returned, and every
\* matching loc read from a sitemap that was processed is returned, once.
C23_KeptIffLocContainsPattern ==
  /\ locsOf(all) = {loc \in fetched.read : containsPattern(loc)}
  /\ cpc = "sorted" =>
       /\ locsOf(deduped) = {loc \in fetched.read : containsPattern(loc)}
       /\ locsOf(entries) = locsOf(deduped)
       /\ \A i, j \in 1..Len(deduped) :
            deduped[i].loc = deduped[j].loc => i = j

\* a pass read a loc without any pattern and a loc with a pattern in the
\* middle of its path: the first is not returned, the second is
C23_Witness ==
  /\ cpc = "sorted"
  /\ <<"newyorker.com", "/about/", "d">> \in fetched.read
  /\ <<"newyorker.com", "/news", "/politics/", "c">> \in locsOf(deduped)
  /\ <<"newyorker.com", "/about/", "d">> \notin locsOf(deduped)

\* the per-source share: ceil(limit / number of sources requested)
perSourceCap == ceilDiv(limitOf(options), Len(sourcesOf(options)))

\* C24: for each requested source scrapeAllSources attempts extraction for
\* at most ceil(limit / numberOfSourcesRequested) candidate URLs, and these
\* are the leading entries of that source's sorted, de-duplicated list.
C24_PerSourceCap ==
  spc = "extract" =>
    /\ Len(selected) <= perSourceCap
    /\ Len(selected) <= Len(entries)
    /\ selected = SubSeq(entries, 1, Len(selected))

\* with a limit of at least 1 the cap holds: the candidates of a source are
\* the first min(cap, length) entries of its sorted list
PerSourceCapForPositiveLimit ==
  (spc = "extract" /\ limitOf(options) >= 1) =>
    /\ Len(selected) = Min(perSourceCap, Len(entries))
    /\ selected = SubSeq(entries, 1, Len(selected))

\* the nodes of a document in depth-first encounter order: a node, then the
\* elements of a list or of a graph collection, each with what is below it
RECURSIVE preorder(_)
RECURSIVE preorderAll(_, _)
preorderAll(items, i) ==
  IF i > Len(items) THEN <<>>
  ELSE preorder(items[i]) \o preorderAll(items, i + 1)

preorder(json) ==
  <<json>> \o
  (IF json.kind = "array" \/ (json.kind = "object" /\ json.graph = "array")
     THEN preorderAll(json.items, 1) ELSE <<>>)

\* the nodes of the first n script blocks that parse, in encounter order,
\* each with the index of its block
RECURSIVE nodesOfBlocks(_, _, _)
nodesOfBlocks(blocks, i, n) ==
  IF i > n THEN <<>>
  ELSE (IF blocks[i].text = "json"
          THEN [k \in 1..Len(preorder(blocks[i].json)) |->
                  [node |-> preorder(blocks[i].json)[k], block |-> i]]
          ELSE <<>>)
       \o nodesOfBlocks(blocks, i + 1, n)

recognized(nodes) ==
  SelectSeq(nodes, LAMBDA x : x.node.kind = "object"
                              /\ x.node.type \in {"NewsArticle", "Article"})

\* C25: in scrapeArticle a structured-data block that fails to parse (or is
\* empty) is skipped and the blocks after it are still read; the article
\* used is the first node, in depth-first encounter order over the blocks
\* parsed so far, whose declared type is a recognized article type: a later
\* or deeper match never replaces it.
C25_FirstArticleInEncounterOrder ==
  xpc \in {"scripts", "done"} =>
    LET found == recognized(nodesOfBlocks(doc.blocks, 1, blockIdx - 1))
    IN  /\ found = <<>> => (jsonLdArticle = <<>> /\ jsonLdRaw = 0)
        /\ found # <<>> =>
             /\ jsonLdArticle = <<found[1].node>>
             /\ jsonLdRaw = found[1].block
        /\ xpc = "done" => blockIdx = Len(doc.blocks) + 1

\* the first block did not parse; the second is a list whose first element
\* holds an article two levels down in a graph collection and whose second
\* element is an article: the deeper one, met first, is used
C25_Witness ==
  /\ xpc = "done" /\ Len(doc.blocks) = 2
  /\ doc.blocks[1].text = "broken"
  /\ doc.blocks[2].text = "json"
  /\ Len(recognized(nodesOfBlocks(doc.blocks, 1, 2))) = 2
  /\ jsonLdArticle # <<>> /\ jsonLdArticle[1].headline = "h5"
  /\ jsonLdRaw = 2

\* the first value of a priority chain that is present (neither missing nor
\* empty), NULL when there is none
RECURSIVE firstPresent(_)
firstPresent(chain) ==
  IF chain = <<>> THEN NULL
  ELSE IF Head(chain) \notin {NULL, ""} THEN Head(chain)
  ELSE firstPresent(Tail(chain))

\* the structured-data values of the page, none when no article was found
ldValues ==
  IF jsonLdArticle = <<>>
    THEN [title |-> <<>>, description |-> <<>>, image |-> <<>>]
    ELSE [title |-> <<jsonLdArticle[1].headline, jsonLdArticle[1].name>>,
          description |-> <<jsonLdArticle[1].description>>,
          image |-> IF jsonLdArticle[1].image.urls = <<>> THEN <<>>
                    ELSE <<jsonLdArticle[1].image.urls[1]>>]

titleChain ==
  ldValues.title \o <<doc.meta.ogTitle, doc.meta.twitterTitle,
                      doc.meta.pageTitle>>
descriptionChain ==
  ldValues.description \o <<doc.meta.ogDescription, doc.meta.metaDescription>>
imageChain ==
  ldValues.image \o <<doc.meta.ogImage, doc.meta.twitterImage>>

\* C26: title, description and image are each resolved on their own as the
\* first present value of their chain: the structured-data value, then the
\* meta-tag values in order (title: open-graph title, social-card title,
\* page title; description: open-graph description, description meta;
\* image: open-graph image, social-card image); a field is absent only when
\* every value of its chain is absent.
C26_FieldsResolvedByPriorityChain ==
  xpc = "done" =>
    /\ resolved.title = firstPresent(titleChain)
    /\ resolved.description = firstPresent(descriptionChain)
    /\ resolved.imageUrl = firstPresent(imageChain)
    /\ resolved.title = NULL <=>
         \A k \in 1..Len(titleChain) : titleChain[k] \in {NULL, ""}
    /\ resolved.description = NULL <=>
         \A k \in 1..Len(descriptionChain) :
           descriptionChain[k] \in {NULL, ""}
    /\ resolved.imageUrl = NULL <=>
         \A k \in 1..Len(imageChain) : imageChain[k] \in {NULL, ""}

\* a page whose structured-data article has a description but no title and
\* an empty image list: the title comes from the social-card meta tag, the
\* description from the structured data, the image from the open-graph tag
C26_Witness ==
  /\ xpc = "done" /\ jsonLdArticle # <<>>
  /\ jsonLdArticle[1].headline = "" /\ jsonLdArticle[1].name = NULL
  /\ doc.meta.ogTitle = NULL /\ doc.meta.pageTitle = "page title"
  /\ doc.meta.ogDescription = "og description"
  /\ doc.meta.twitterImage = "tw image"
  /\ resolved = [title |-> "tw title", description |-> "ld description",
                 imageUrl |-> "og image"]

\* the number of blank lines in a text: places where "\n" follows "\n"
blankLines(text) ==
  Cardinality({i \in 1..(Len(text) - 1) : text[i] = "\n" /\ text[i + 1] = "\n"})

\* every whitespace in the text is a single space between two words or
\* belongs to a separator of exactly two "\n"
whitespaceCollapsed(text) ==
  \A i \in 1..Len(text) :
    /\ text[i] = " " =>
         /\ i > 1 /\ i < Len(text)
         /\ ~isSpace(text[i - 1]) /\ ~isSpace(text[i + 1])
    /\ text[i] = "\n" =>
         \E j \in {i - 1, i} :
           /\ j >= 2 /\ j + 2 <= Len(text)
           /\ text[j] = "\n" /\ text[j + 1] = "\n"
           /\ ~isSpace(text[j - 1]) /\ ~isSpace(text[j + 2])

\* C27: in the text body extraction produces, consecutive paragraphs of the
\* accepted selector are separated by a blank line (as many blank lines as
\* the join put between paragraphs), every other run of whitespace is one
\* space, and no two blank lines follow each other.
C27_ParagraphsSeparatedByBlankLine ==
  bpc = "extracted" =>
    /\ blankLines(body.text) = blankLines(selectBody(page, 1, <<>>))
    /\ whitespaceCollapsed(body.text)

\* what the two replaces give: a text without any "\n", its words separated
\* by single spaces, paragraph boundaries included
BodyTextIsOneLine ==
  bpc = "extracted" =>
    /\ \A i \in 1..Len(body.text) : body.text[i] # "\n"
    /\ whitespaceCollapsed(body.text)
    /\ SelectSeq(body.text, LAMBDA piece : ~isSpace(piece))
         = SelectSeq(selectBody(page, 1, <<>>), LAMBDA piece : ~isSpace(piece))

\* C28: when upsertArticle hits an existing url, id, url, source and
\* source_name of the stored record stay as they were, while title,
\* body_available and the analysis fields become the incoming values, a
\* missing (or empty) incoming value giving null, and scraped_at moves to
\* the time of the call.
C28_UpsertFrameOnConflict ==
  (lastUpsert.table = "art" /\ Len(lastUpsert.before) = 1) =>
    LET old == lastUpsert.before[1]
        new == rowsOf(artTable, lastUpsert.url)[1]
        incoming == lastUpsert.incoming[1]
    IN  /\ new.id = old.id /\ new.url = old.url
        /\ new.source = old.source /\ new.source_name = old.source_name
        /\ new.title = IF incoming.title \in {NULL, ""} THEN NULL
                       ELSE incoming.title
        /\ new.body_available = incoming.bodyAvailable
        /\ new.category = incoming.category
        /\ new.scraped_at >= old.scraped_at /\ new.scraped_at <= now

\* an article stored for one source with title and category was upserted
\* again under another source, without title and category: the row keeps
\* id, source and source_name and loses title and category
C28_Witness ==
  /\ lastUpsert.table = "art" /\ Len(lastUpsert.before) = 1
  /\ lastUpsert.before[1].source = "newyorker"
  /\ lastUpsert.before[1].title = "t1"
  /\ lastUpsert.before[1].category = "culture"
  /\ lastUpsert.incoming[1].source = "atlantic"
  /\ lastUpsert.incoming[1].title = NULL
  /\ lastUpsert.incoming[1].category = NULL
  /\ rowsOf(artTable, lastUpsert.url)[1].source_name = "The New Yorker"
  /\ rowsOf(artTable, lastUpsert.url)[1].title = NULL
  /\ rowsOf(artTable, lastUpsert.url)[1].category = NULL

\* C29: when no article is successfully analyzed the selection is empty and
\* processDailyContent still completes: it raises only when a query is
\* rejected, and a completed run has stored exactly one bundle, with an
\* empty article list and, if the headline collaborator failed, with the
\* constant 'Daily News Summary' as headline; the failed call gives the same
\* constant whenever the top-ranked article has no title.
C29_EmptySelectionStillGivesBundle ==
  /\ raised => procError = "query failed"
  /\ (ppc \in {"headlined", "done"} /\ headlineFailed
        /\ (topArticles = <<>> \/ topArticles[1].title = NULL)) =>
       mainHeadline = "Daily News Summary"
  /\ (ppc = "done" /\ topArticles = <<>>) =>
       /\ ~raised /\ calls.headline = 1 /\ calls.summary = 0
       /\ Len(bundles) = 1 /\ bundles[1].articles = <<>>
       /\ bundles[1].headline =
            IF headlineFailed THEN "Daily News Summary"
            ELSE "generated headline"

\* two articles were read, the analysis of both failed, the headline call
\* failed too, and the run stored its bundle
C29_Witness ==
  /\ ppc = "done" /\ Len(articles) = 2
  /\ outcomes \in [1..2 -> {"error", "unparseable"}]
  /\ topArticles = <<>> /\ headlineFailed
  /\ Len(bundles) = 1 /\ bundles[1].articles = <<>>
  /\ bundles[1].headline = "Daily News Summary"

\* the parts of C30 that do not depend on the score: the articles of a
\* stored bundle have a body, carry an analysis, are at most ten and were
\* among the rows read by getRecentArticles in that run
bundleArticlesFromWindow ==
  \A b \in 1..Len(bundles) :
    /\ Len(bundles[b].articles) <= 10
    /\ \A k \in 1..Len(bundles[b].articles) :
         LET a == bundles[b].articles[k]
         IN  /\ a.body_available
             /\ a.analysis.articleId = a.id
             /\ \E i \in 1..Len(articles) :
                  /\ articles[i].id = a.id
                  /\ articles[i].title = a.title
                  /\ articles[i].body_text = a.body_text

\* C30: every article of a persisted bundle has body_available true and
\* carries a non-null analysis and a finalScore, the bundle holds at most
\* 10 articles, and each of them was among the candidates read from the
\* recent-articles window of that run.
C30_BundleArticlesWellFormed ==
  /\ bundleArticlesFromWindow
  /\ \A b \in 1..Len(bundles) :
       \A k \in 1..Len(bundles[b].articles) :
         bundles[b].articles[k].finalScore \notin {NaN, JsonNull}

\* an article stored with an analysis that matches the schema has a number
\* as finalScore
BundleScoresOfValidAnalyses ==
  \A b \in 1..Len(bundles) :
    \A k \in 1..Len(bundles[b].articles) :
      matchesSchema(bundles[b].articles[k].analysis) =>
        bundles[b].articles[k].finalScore \notin {NaN, JsonNull}

====
